---------------------------- MODULE Spec2Model ----------------------------
(***************************************************************************)
(* Model of python/src/transforms.cpp: the function-transformation         *)
(* drivers (value_and_grad / grad, compile) that flatten structured call   *)
(* arguments into tensor lists, drive a primitive transform, and rebuild   *)
(* structured results.                                                     *)
(***************************************************************************)
EXTENDS Integers, Sequences, FiniteSets, TLC

(***************************************************************************)
(* Python trees.  Every node is the same record so that any two nodes can  *)
(* be compared:                                                            *)
(*   k    kind: "array" "int" "float" "str" "none" "list" "tuple" "dict"   *)
(*        ("missing" marks a leaf that could not be rebuilt)               *)
(*   v    int payload: array identity, int value, float bit pattern        *)
(*   nd   array shape (its number of dimensions), 0 otherwise              *)
(*   s    str payload; for an array its provenance: "" a caller's array,   *)
(*        "tracer" a placeholder made by a primitive transform, "grad" a   *)
(*        gradient, "out" a traced output                                  *)
(*   keys dict keys in iteration order                                     *)
(*   c    children in iteration order                                      *)
(***************************************************************************)
Node(k, v, nd, s, keys, c) ==
  [k |-> k, v |-> v, nd |-> nd, s |-> s, keys |-> keys, c |-> c]

Array(id, nd) == Node("array", id, nd, "", <<>>, <<>>)
PyInt(n) == Node("int", n, 0, "", <<>>, <<>>)
PyFloat(bits) == Node("float", bits, 0, "", <<>>, <<>>)
PyStr(s) == Node("str", 0, 0, s, <<>>, <<>>)
PyNone == Node("none", 0, 0, "", <<>>, <<>>)
PyList(c) == Node("list", 0, 0, "", <<>>, c)
PyTuple(c) == Node("tuple", 0, 0, "", <<>>, c)
PyDict(keys, c) == Node("dict", 0, 0, "", keys, c)
Missing == Node("missing", 0, 0, "", <<>>, <<>>)

IsArray(n) == n.k = "array"
IsContainer(n) == n.k \in {"list", "tuple", "dict"}

RECURSIVE ConcatAll(_)
ConcatAll(ss) == IF ss = <<>> THEN <<>> ELSE Head(ss) \o ConcatAll(Tail(ss))

RECURSIVE SumSeq(_)
SumSeq(s) == IF s = <<>> THEN 0 ELSE Head(s) + SumSeq(Tail(s))

Range(s) == {s[i] : i \in 1..Len(s)}

\* tree_visit: the leaves of a tree, depth first, containers in iteration order
RECURSIVE tree_leaves(_)
tree_leaves(t) ==
  IF IsContainer(t)
  THEN ConcatAll([i \in 1..Len(t.c) |-> tree_leaves(t.c[i])])
  ELSE <<t>>

\* tree_flatten(tree, strict): the array leaves; strict fails on any other leaf
tree_flatten(t, strict) ==
  LET ls == tree_leaves(t) IN
  [err |-> IF strict /\ \E i \in 1..Len(ls) : ~IsArray(ls[i])
           THEN "TreeLeafError" ELSE "",
   arrays |-> SelectSeq(ls, IsArray)]

NumArrays(t) == Len(tree_flatten(t, FALSE).arrays)

\* tree_unflatten(tree, values, index): the tree with its array leaves replaced,
\* in flatten order, by values[index], values[index + 1], ... (0-based index)
RECURSIVE tree_unflatten(_, _, _)
tree_unflatten(t, values, index) ==
  IF IsArray(t)
  THEN IF index + 1 \in 1..Len(values) THEN values[index + 1] ELSE Missing
  ELSE IF IsContainer(t)
  THEN [t EXCEPT !.c =
          [i \in 1..Len(t.c) |->
             tree_unflatten(t.c[i], values,
               index + SumSeq([j \in 1..(i - 1) |-> NumArrays(t.c[j])]))]]
  ELSE t

\* a rebuilt tree is short of values when some leaf could not be filled
RECURSIVE HasMissing(_)
HasMissing(t) ==
  \/ t.k = "missing"
  \/ IsContainer(t) /\ \E i \in 1..Len(t.c) : HasMissing(t.c[i])

\* tree_fill(tree, values): in place, every array leaf takes the next value
tree_fill(t, values) == tree_unflatten(t, values, 0)

\* the structure descriptor: the tree with every array leaf a placeholder
RECURSIVE Structure(_)
Structure(t) ==
  IF IsArray(t) THEN Node("array", 0, 0, "*", <<>>, <<>>)
  ELSE IF IsContainer(t)
  THEN [t EXCEPT !.c = [i \in 1..Len(t.c) |-> Structure(t.c[i])]]
  ELSE t


(***************************************************************************)
(* Argument selection: validate_argnums_argnames and the construction-time *)
(* checks of py_value_and_grad.                                            *)
(***************************************************************************)
MaxIndex == 2
MaxArgnums == 2

\* std::optional<IntOrVec>: not supplied, one int, or a vector of ints
ArgnumsNone == [t |-> "none", i |-> 0, vec |-> <<>>]
ArgnumsInt(n) == [t |-> "int", i |-> n, vec |-> <<>>]
ArgnumsVec(v) == [t |-> "vec", i |-> 0, vec |-> v]
\* StrOrSet: one name, or a set of names
ArgnamesStr(s) == [t |-> "str", s |-> s, set |-> {}]
ArgnamesSet(S) == [t |-> "set", s |-> "", set |-> S]

Indices == (-1)..MaxIndex
Names == {"a", "b"}
SeqsUpTo(S, n) == UNION {[1..m -> S] : m \in 0..n}
ArgnumsInputs ==
  {ArgnumsNone} \cup {ArgnumsInt(n) : n \in Indices}
    \cup {ArgnumsVec(v) : v \in SeqsUpTo(Indices, MaxArgnums)}
ArgnamesInputs ==
  {ArgnamesStr(s) : s \in Names} \cup {ArgnamesSet(S) : S \in SUBSET Names}

setnames_of(argnames) ==
  IF argnames.t = "str" THEN {argnames.s} ELSE argnames.set

vecnums_of(argnums) ==
  IF argnums.t = "int" THEN <<argnums.i>> ELSE argnums.vec

\* mutant: the default is index 0 even when names are given
default_argnums_always_zero(setnames) == <<0>>

default_argnums(setnames) ==
  IF setnames = {} THEN <<0>> ELSE <<>>

validate_argnums_argnames(argnums, argnames) ==
  LET setnames == setnames_of(argnames) IN
  IF argnums.t = "none"
  THEN [nums |-> default_argnums(setnames), names |-> setnames]
  ELSE [nums |-> vecnums_of(argnums), names |-> setnames]

\* std::sort(argnums.begin(), argnums.end())
sort_argnums(argnums) == SortSeq(argnums, LAMBDA x, y : x < y)

no_argument_requested(argnums, argnames) ==
  Len(argnums) = 0 /\ Cardinality(argnames) = 0

\* mutant: the check looks at the largest index instead of the smallest
negative_index_of_back(sorted) == sorted[Len(sorted)] < 0

negative_index(sorted) == sorted[1] < 0

duplicate_index(sorted) ==
  \E i \in 2..Len(sorted) : sorted[i] = sorted[i - 1]

\* the construction part of py_value_and_grad: throws, or returns the closure
\* that captured the sorted argnums, the argnames and scalar_func_only
py_value_and_grad(argnums, argnames, scalar_func_only) ==
  LET sorted == sort_argnums(argnums)
      bad == Len(argnums) > 0 /\ (negative_index(sorted) \/ duplicate_index(sorted))
  IN IF no_argument_requested(argnums, argnames) \/ bad
     THEN [state |-> "error", argnums |-> <<>>, argnames |-> {},
           scalar_func_only |-> scalar_func_only]
     ELSE [state |-> "built", argnums |-> sorted, argnames |-> argnames,
           scalar_func_only |-> scalar_func_only]

(***************************************************************************)
(* The closure returned by py_value_and_grad, called with (args, kwargs).  *)
(* args is the sequence of positional trees, kwargs a dict node.           *)
(***************************************************************************)
\* args[i] with a 0-based index; Missing when there is no such argument
arg_at(args, i) == IF i + 1 \in 1..Len(args) THEN args[i + 1] ELSE Missing

\* "Sanitize the input": the two call-time checks
\* mutant: the bound check is off by one
index_out_of_range_off_by_one(argnums, args) ==
  Len(argnums) > 0 /\ argnums[Len(argnums)] > Len(args)

index_out_of_range(argnums, args) ==
  Len(argnums) > 0 /\ argnums[Len(argnums)] >= Len(args)

missing_keyword(argnames, kwargs) ==
  \E key \in argnames : key \notin Range(kwargs.keys)

\* mutant: the gradient indices are numbered from the number of gradients so
\* far instead of the number of arrays so far
collect_one_numbered_from_gradients(st, flat, needs_grad) ==
  [st EXCEPT
     !.gradient_indices =
        IF needs_grad
        THEN @ \o [k \in 1..Len(flat) |-> Len(st.gradient_indices) + k - 1]
        ELSE @,
     !.counts = IF needs_grad THEN Append(@, Len(flat)) ELSE @,
     !.arrays = @ \o flat]

\* one more flattened argument in "Collect the arrays"
collect_one(st, flat, needs_grad) ==
  [st EXCEPT
     !.gradient_indices =
        IF needs_grad
        THEN @ \o [k \in 1..Len(flat) |-> Len(st.arrays) + k - 1]
        ELSE @,
     !.counts = IF needs_grad THEN Append(@, Len(flat)) ELSE @,
     !.arrays = @ \o flat]

\* the loop over the positional arguments, from argument i on, j of the
\* selected indices being consumed already
RECURSIVE collect_args(_, _, _, _, _)
collect_args(argnums, args, i, j, st) ==
  IF i >= Len(args) \/ st.err # "" THEN st
  ELSE LET needs_grad == j < Len(argnums) /\ argnums[j + 1] = i
           argsi == tree_flatten(args[i + 1], needs_grad)
       IN IF argsi.err # "" THEN [st EXCEPT !.err = argsi.err]
          ELSE collect_args(argnums, args, i + 1,
                            IF needs_grad THEN j + 1 ELSE j,
                            collect_one(st, argsi.arrays, needs_grad))

\* the loop over the keyword arguments, in the iteration order of kwargs
RECURSIVE collect_kwargs(_, _, _, _)
collect_kwargs(argnames, kwargs, i, st) ==
  IF i > Len(kwargs.keys) \/ st.err # "" THEN st
  ELSE LET needs_grad == kwargs.keys[i] \in argnames
           argsk == tree_flatten(kwargs.c[i], needs_grad)
       IN IF argsk.err # "" THEN [st EXCEPT !.err = argsk.err]
          ELSE collect_kwargs(argnames, kwargs, i + 1,
                              collect_one(st, argsk.arrays, needs_grad))

\* std::partial_sum(counts.cbegin(), counts.cend(), counts.begin())
partial_sum(counts) == [i \in 1..Len(counts) |-> SumSeq(SubSeq(counts, 1, i))]

collect_arrays(argnums, argnames, args, kwargs) ==
  LET st0 == [err |-> "", arrays |-> <<>>, counts |-> <<0>>,
              gradient_indices |-> <<>>]
      st1 == collect_args(argnums, args, 0, 0, st0)
      st2 == collect_kwargs(argnames, kwargs, 1, st1)
  IN [st2 EXCEPT !.counts = partial_sum(@)]

\* the tracer that stands for arrays[index] inside the primitive transform
Tracer(index, x) == Node("array", index, x.nd, "tracer", <<>>, <<>>)
\* the gradient with respect to arrays[index]
Gradient(index, x) == Node("array", index, x.nd, "grad", <<>>, <<>>)
\* the i-th array the user callable returns
Out(i) == Node("array", i, 0, "out", <<>>, <<>>)

\* what the user callable returns: one of the shapes a Python callable can hand
\* back (the callable is the caller's and can return anything), or "raise"
\* when it raises instead
ReturnKinds ==
  {"array", "tuple_aux", "tuple_empty", "list", "tuple_nonarray", "int", "raise"}
user_return(kind) ==
  CASE kind = "array" -> Out(0)
    [] kind = "tuple_aux" -> PyTuple(<<Out(0), PyInt(7), PyList(<<Out(1)>>)>>)
    [] kind = "tuple_empty" -> PyTuple(<<>>)
    [] kind = "list" -> PyList(<<Out(0)>>)
    [] kind = "tuple_nonarray" -> PyTuple(<<PyInt(7), Out(0)>>)
    [] OTHER -> PyInt(7)

\* mutant: the validation does not look at scalar_func_only
return_value_invalid_any_mode(py_value_out, scalar_func_only) ==
  /\ ~IsArray(py_value_out)
  /\ \/ py_value_out.k # "tuple"
     \/ Len(py_value_out.c) = 0
     \/ ~IsArray(py_value_out.c[1])

\* "Validate the return value of the python function"
return_value_invalid(py_value_out, scalar_func_only) ==
  /\ ~IsArray(py_value_out)
  /\ \/ scalar_func_only
     \/ py_value_out.k # "tuple"
     \/ Len(py_value_out.c) = 0
     \/ ~IsArray(py_value_out.c[1])

\* the array the user callable writes into one of its arguments
Written == Node("array", 99, 1, "written", <<>>, <<>>)

\* for every array leaf, in flatten order, whether the user callable can
\* overwrite it: the leaf sits in a list or a dict below an argument (the
\* tuple of arguments and the dict of keywords are unpacked for the call, the
\* containers below them are the caller's own objects)
RECURSIVE writable_flags(_, _)
writable_flags(t, inside) ==
  IF IsArray(t) THEN <<inside>>
  ELSE IF IsContainer(t)
  THEN ConcatAll([i \in 1..Len(t.c) |-> writable_flags(t.c[i], t.k \in {"list", "dict"})])
  ELSE <<>>

\* the flat positions the user callable can overwrite, and -1 for no write
Writes(args, kwargs) ==
  {-1} \cup {i - 1 : i \in {j \in 1..Len(writable_flags(PyTuple(args), FALSE)
                                          \o writable_flags(PyTuple(kwargs.c), FALSE)) :
                              (writable_flags(PyTuple(args), FALSE)
                                 \o writable_flags(PyTuple(kwargs.c), FALSE))[j]}}

\* the user callables the calls are drawn from: the ones that overwrite a
\* leaf of their arguments return one array
UserWrites(args, kwargs, kind) ==
  IF kind = "array" THEN Writes(args, kwargs) ELSE {-1}

\* the argument tree after fun(*tree[0], **tree[1]) has run on it
after_fun(filled, write) ==
  IF write < 0 THEN filled
  ELSE tree_fill(filled,
         [i \in 1..NumArrays(filled) |->
            IF i = write + 1 THEN Written ELSE tree_flatten(filled, FALSE).arrays[i]])

\* "Replace the tracers with the originals": the visitor of tree_visit_update
\* applied to the array leaves in order, index being the visitor's counter
RECURSIVE replace_tracers(_, _, _, _)
replace_tracers(leaves, a, arrays, index) ==
  IF leaves = <<>> THEN <<>>
  ELSE LET replace_arr == Head(leaves)
           hit == index + 1 \in 1..Len(a) /\ replace_arr = a[index + 1]
       IN <<IF hit THEN arrays[index + 1] ELSE replace_arr>>
            \o replace_tracers(Tail(leaves), a, arrays,
                               IF hit THEN index + 1 ELSE index)

\* counts[i] with a 0-based index (0 when there is no such entry)
count_at(counts, i) == IF i + 1 \in 1..Len(counts) THEN counts[i + 1] ELSE 0

\* mutant: every positional gradient tree is rebuilt from counts[0]
positional_gradients_from_zero(argnums, args, gradients, counts) ==
  IF Len(argnums) = 1
  THEN tree_unflatten(arg_at(args, argnums[1]), gradients, count_at(counts, 0))
  ELSE IF Len(argnums) > 1
  THEN PyTuple([i \in 1..Len(argnums) |->
                  tree_unflatten(arg_at(args, argnums[i]), gradients,
                                 count_at(counts, 0))])
  ELSE PyNone

\* "Collect the gradients for the positional arguments"
positional_gradients(argnums, args, gradients, counts) ==
  IF Len(argnums) = 1
  THEN tree_unflatten(arg_at(args, argnums[1]), gradients, count_at(counts, 0))
  ELSE IF Len(argnums) > 1
  THEN PyTuple([i \in 1..Len(argnums) |->
                  tree_unflatten(arg_at(args, argnums[i]), gradients,
                                 count_at(counts, i - 1))])
  ELSE PyNone

\* the positions in kwargs, in iteration order, of the selected names
selected_items(argnames, kwargs) ==
  SelectSeq([i \in 1..Len(kwargs.keys) |-> i],
            LAMBDA i : kwargs.keys[i] \in argnames)

\* the dict grads_ of the keyword gradients: the i-th selected item of kwargs
\* is rebuilt from counts[i + argnums.size()]
keyword_gradients(argnums, argnames, kwargs, gradients, counts) ==
  LET sel == selected_items(argnames, kwargs) IN
  PyDict([i \in 1..Len(sel) |-> kwargs.keys[sel[i]]],
         [i \in 1..Len(sel) |->
            tree_unflatten(kwargs.c[sel[i]], gradients,
                           count_at(counts, (i - 1) + Len(argnums)))])

\* mutant: the pair (positional, keyword) is returned also without names
package_gradients_always_pair(argnums, argnames, args, kwargs, gradients, counts) ==
  PyTuple(<<positional_gradients(argnums, args, gradients, counts),
            keyword_gradients(argnums, argnames, kwargs, gradients, counts)>>)

\* "Put the gradients back in their container"
package_gradients(argnums, argnames, args, kwargs, gradients, counts) ==
  LET positional_grads == positional_gradients(argnums, args, gradients, counts)
  IN IF Cardinality(argnames) = 0
     THEN positional_grads
     ELSE PyTuple(<<positional_grads,
                    keyword_gradients(argnums, argnames, kwargs, gradients, counts)>>)

\* the record a call leaves behind; log lists the stages the call went through
GradOutcome(err, log, col, gradients, py_grads, return_value, tree) ==
  [err |-> err, log |-> log, arrays |-> col.arrays, counts |-> col.counts,
   gradient_indices |-> col.gradient_indices, gradients |-> gradients,
   py_grads |-> py_grads, return_value |-> return_value, tree |-> tree]

NoCollect == [err |-> "", arrays |-> <<>>, counts |-> <<>>, gradient_indices |-> <<>>]

\* mx::value_and_grad(closure, gradient_indices)(arrays): one gradient for each
\* entry of gradient_indices, in that order
primitive_gradients(gradient_indices, arrays) ==
  [k \in 1..Len(gradient_indices) |->
     Gradient(gradient_indices[k], arrays[gradient_indices[k] + 1])]

\* py_value_out = fun(*tree[0], **tree[1]) raises: the exception leaves the
\* closure at this statement, with the tree as tree_fill left it
fun_raised(col, filled) ==
  GradOutcome("UserError", <<"sanitize", "flatten", "value_and_grad", "tree_fill", "raise">>,
              col, <<>>, PyNone, PyNone, filled)

\* The whole call of the closure.  kind is what the user callable returns;
\* accepts_empty is whether the primitive layer accepts an empty list of
\* gradient indices (its code is outside this file, both outcomes are kept);
\* write is the flat position of the leaf the user callable overwrites.
call_value_and_grad(fn, args, kwargs, kind, accepts_empty, write) ==
  LET argnums == fn.argnums
      argnames == fn.argnames
      tree0 == PyList(<<PyTuple(args), kwargs>>)
  IN
  IF index_out_of_range(argnums, args) \/ missing_keyword(argnames, kwargs)
  THEN GradOutcome("InvalidArgumentError", <<"sanitize">>, NoCollect, <<>>,
                   PyNone, PyNone, tree0)
  ELSE
  LET col == collect_arrays(argnums, argnames, args, kwargs) IN
  IF col.err # ""
  THEN GradOutcome(col.err, <<"sanitize", "flatten">>, NoCollect, <<>>,
                   PyNone, PyNone, tree0)
  ELSE IF col.gradient_indices = <<>> /\ ~accepts_empty
  THEN GradOutcome("PrimitiveError", <<"sanitize", "flatten", "value_and_grad">>,
                   col, <<>>, PyNone, PyNone, tree0)
  ELSE
  LET arrays == col.arrays
      a == [i \in 1..Len(arrays) |-> Tracer(i - 1, arrays[i])]
      filled == after_fun(tree_fill(tree0, a), write)
      py_value_out == user_return(kind)
      restored == tree_fill(filled,
                    replace_tracers(tree_flatten(filled, FALSE).arrays, a, arrays, 0))
      traced == <<"sanitize", "flatten", "value_and_grad", "tree_fill", "fun",
                  "replace", "validate">>
  IN
  IF kind = "raise"
  THEN fun_raised(col, filled)
  ELSE IF return_value_invalid(py_value_out, fn.scalar_func_only)
  THEN GradOutcome("ReturnContractError", traced, col, <<>>, PyNone, PyNone, restored)
  ELSE
  LET value == tree_flatten(py_value_out, FALSE).arrays
      gradients == primitive_gradients(col.gradient_indices, arrays)
  IN GradOutcome("", traced \o <<"unflatten">>, col, gradients,
                 package_gradients(argnums, argnames, args, kwargs, gradients, col.counts),
                 tree_unflatten(py_value_out, value, 0), restored)

(***************************************************************************)
(* State of the gradient driver: the transform that grad / value_and_grad  *)
(* built last (gfun) and the last call of it (gcall).                      *)
(***************************************************************************)
VARIABLES gfun, gcall, wrappers, tree_cache, compile_cache, ccall, exited, vcall,
          kcall, cfun, fcall, finv, collect, gil, ehost, ecall, scall

gvars == <<gfun, gcall>>
cvars == <<wrappers, tree_cache, compile_cache, ccall, exited>>
\* the state of the other drivers: the last call of a vmapped function and
\* of a checkpointed function
vvars == <<vcall>>
kvars == <<kcall>>
fvars == <<cfun, fcall, finv, collect>>
\* the host lock, the contents of a list another host thread can write, and
\* the call of eval or async_eval in progress
evars == <<gil, ehost, ecall>>
\* the last signature call_impl computed for a call with one constant
svars == <<scall>>
ovars == <<vvars, kvars, fvars, evars, svars>>
vars == <<gfun, gcall, wrappers, tree_cache, compile_cache, ccall, exited, vcall,
          kcall, cfun, fcall, finv, collect, gil, ehost, ecall, scall>>

\* the positional argument tuples and keyword dicts the calls are drawn from
GradArgs ==
  { <<>>,
    <<Array(1, 1)>>,
    <<PyList(<<Array(2, 1), PyTuple(<<Array(3, 2)>>)>>), Array(1, 1)>>,
    <<Array(1, 1), PyList(<<Array(4, 1), PyInt(5)>>)>>,
    <<PyList(<<>>), PyList(<<Array(2, 1), PyTuple(<<Array(3, 2)>>)>>)>>,
    <<Array(1, 1), PyDict(<<"w", "v">>, <<Array(2, 1), Array(3, 2)>>),
      PyTuple(<<Array(4, 1)>>)>> }

GradKwargs ==
  { PyDict(<<>>, <<>>),
    PyDict(<<"a">>, <<Array(7, 1)>>),
    PyDict(<<"a", "b">>, <<Array(7, 1), PyList(<<Array(8, 1), Array(9, 2)>>)>>),
    PyDict(<<"b", "a">>, <<PyList(<<Array(8, 1), Array(9, 2)>>), Array(7, 1)>>),
    PyDict(<<"a", "c">>, <<PyInt(5), Array(7, 1)>>) }

NoTransform ==
  [state |-> "none", argnums |-> <<>>, argnames |-> {}, scalar_func_only |-> FALSE,
   given_argnums |-> ArgnumsNone, given_argnames |-> ArgnamesSet({}),
   resolved |-> [nums |-> <<>>, names |-> {}]]

NoCall ==
  [state |-> "none", args |-> <<>>, kwargs |-> PyDict(<<>>, <<>>), kind |-> "array",
   write |-> -1,
   out |-> GradOutcome("", <<>>, NoCollect, <<>>, PyNone, PyNone, PyNone),
   returned |-> PyNone]

GradInit == gfun = NoTransform /\ gcall = NoCall

\* the binding body shared by value_and_grad and grad: resolve, then build
build_transform(argnums, argnames, scalar_func_only) ==
  LET r == validate_argnums_argnames(argnums, argnames)
      fn == py_value_and_grad(r.nums, r.names, scalar_func_only)
  IN [state |-> fn.state, argnums |-> fn.argnums, argnames |-> fn.argnames,
      scalar_func_only |-> fn.scalar_func_only,
      given_argnums |-> argnums, given_argnames |-> argnames, resolved |-> r]

\* Every behaviour follows one transform through its construction and one call
\* of it: the driver keeps nothing from one call to the next.

\* m.def("value_and_grad", ...)
value_and_grad(argnums, argnames) ==
  /\ gfun.state = "none"
  /\ gfun' = build_transform(argnums, argnames, FALSE)
  /\ gcall' = NoCall
  /\ UNCHANGED <<cvars, ovars>>

\* m.def("grad", ...)
grad(argnums, argnames) ==
  /\ gfun.state = "none"
  /\ gfun' = build_transform(argnums, argnames, TRUE)
  /\ gcall' = NoCall
  /\ UNCHANGED <<cvars, ovars>>

\* what the caller of the transformed function gets back: value_and_grad
\* returns the pair (value, gradients), grad its second element
returned_value(fn, out) ==
  IF fn.scalar_func_only THEN out.py_grads
  ELSE PyTuple(<<out.return_value, out.py_grads>>)

\* a call of the function value_and_grad / grad returned
call_transformed(args, kwargs, kind, accepts_empty, write) ==
  /\ gfun.state = "built"
  /\ gcall.state = "none"
  /\ LET out == call_value_and_grad(gfun, args, kwargs, kind, accepts_empty, write) IN
     gcall' = [state |-> IF out.err = "" THEN "returned" ELSE "raised",
               args |-> args, kwargs |-> kwargs, kind |-> kind, write |-> write,
               out |-> out,
               returned |-> IF out.err = "" THEN returned_value(gfun, out) ELSE PyNone]
  /\ UNCHANGED gfun
  /\ UNCHANGED <<cvars, ovars>>

GradNext ==
  \/ \E argnums \in ArgnumsInputs, argnames \in ArgnamesInputs :
       value_and_grad(argnums, argnames)
  \/ \E argnums \in ArgnumsInputs, argnames \in ArgnamesInputs :
       grad(argnums, argnames)
  \/ \E args \in GradArgs, kwargs \in GradKwargs, kind \in ReturnKinds,
        accepts_empty \in BOOLEAN :
       \E write \in UserWrites(args, kwargs, kind) :
         call_transformed(args, kwargs, kind, accepts_empty, write)


(***************************************************************************)
(* Properties of the gradient driver.                                      *)
(***************************************************************************)
\* every array of a call, positional arguments first, then keyword arguments
AllArrays(args, kwargs) == tree_flatten(PyList(<<PyTuple(args), kwargs>>), FALSE).arrays
\* the gradient with respect to each array of the call, by flat position
AllGradients(args, kwargs) ==
  LET xs == AllArrays(args, kwargs) IN [p \in 1..Len(xs) |-> Gradient(p - 1, xs[p])]
\* the tree of positional argument i (0-based) with every array replaced by the
\* gradient with respect to that very array
ExpectedPosGrad(args, kwargs, i) ==
  tree_unflatten(args[i + 1], AllGradients(args, kwargs),
                 NumArrays(PyTuple(SubSeq(args, 1, i))))
\* the same for the m-th item of kwargs
ExpectedKwGrad(args, kwargs, m) ==
  tree_unflatten(kwargs.c[m], AllGradients(args, kwargs),
                 NumArrays(PyTuple(args)) + NumArrays(PyTuple(SubSeq(kwargs.c, 1, m - 1))))

StrictlyIncreasing(q) == \A i \in 1..(Len(q) - 1) : q[i] < q[i + 1]
NoRepeats(q) == \A i, j \in 1..Len(q) : i # j => q[i] # q[j]

\* C5: building a gradient transform fails exactly when the resolved selection
\* is empty, or holds a negative index, or holds an index twice; the failure is
\* at construction (no call of a failed transform exists); a transform that is
\* built stores the resolved indices sorted ascending, unique and non-negative.
C5_ConstructionCheck ==
  gfun.state # "none" =>
    LET nums == gfun.resolved.nums
        names == gfun.resolved.names
        refused == \/ (nums = <<>> /\ names = {})
                   \/ \E i \in 1..Len(nums) : nums[i] < 0
                   \/ ~NoRepeats(nums)
    IN /\ (gfun.state = "error") <=> refused
       /\ gfun.state = "error" => gcall.state = "none"
       /\ gfun.state = "built" =>
            /\ StrictlyIncreasing(gfun.argnums)
            /\ \A i \in 1..Len(gfun.argnums) : gfun.argnums[i] >= 0
            /\ Range(gfun.argnums) = Range(nums)
            /\ Len(gfun.argnums) = Len(nums)
            /\ gfun.argnames = names

C5_Witness ==
  /\ gfun.state = "error"
  /\ gfun.resolved.nums = <<1, 1>>
  /\ gfun.resolved.names = {"a"}

\* C6: without argnums the resolver yields <<0>> when there are no names and no
\* index when there are names; a supplied argnums (int or list) is passed
\* through unchanged; a single name becomes a one-element set.
C6_Resolver ==
  gfun.state # "none" =>
    LET given == gfun.given_argnums
        gnames == gfun.given_argnames
        names == IF gnames.t = "str" THEN {gnames.s} ELSE gnames.set
    IN /\ gfun.resolved.names = names
       /\ given.t = "none" /\ names = {} => gfun.resolved.nums = <<0>>
       /\ given.t = "none" /\ names # {} => gfun.resolved.nums = <<>>
       /\ given.t = "int" => gfun.resolved.nums = <<given.i>>
       /\ given.t = "vec" => gfun.resolved.nums = given.vec

C6_Witness ==
  /\ gfun.state = "built"
  /\ gfun.given_argnums.t = "none"
  /\ gfun.given_argnames = ArgnamesStr("b")
  /\ gfun.resolved = [nums |-> <<>>, names |-> {"b"}]

\* C7: a call whose selected index has no positional argument, or whose selected
\* name is not among the keyword arguments, fails with InvalidArgumentError
\* in the sanitize stage: nothing was flattened, no tracer was put into the
\* arguments and the user callable was not invoked.
C7_CallTimeCheck ==
  gcall.state # "none" =>
    LET no_such_arg == \E i \in 1..Len(gfun.argnums) : gfun.argnums[i] >= Len(gcall.args)
        no_such_name == \E n \in gfun.argnames : n \notin Range(gcall.kwargs.keys)
    IN no_such_arg \/ no_such_name =>
         /\ gcall.state = "raised"
         /\ gcall.out.err = "InvalidArgumentError"
         /\ gcall.out.log = <<"sanitize">>
         /\ gcall.out.tree = PyList(<<PyTuple(gcall.args), gcall.kwargs>>)

C7_Witness ==
  /\ gcall.state = "raised"
  /\ gcall.out.err = "InvalidArgumentError"
  /\ Len(gcall.args) = 1
  /\ gfun.argnums = <<0, 1>>
  /\ gfun.argnames = {}

\* the positional part and the keyword part of the gradients a call returned
PositionalPart(fn, out) ==
  IF fn.argnames = {} THEN out.py_grads ELSE out.py_grads.c[1]
KeywordPart(fn, out) == out.py_grads.c[2]

\* C8 as stated: with several positional indices the k-th element of the
\* positional gradients is the gradient tree of the k-th index in the order
\* the caller listed them in argnums.
C8_CallerOrder ==
  gcall.state = "returned" /\ Len(gfun.resolved.nums) > 1 =>
    LET part == PositionalPart(gfun, gcall.out)
        listed == gfun.resolved.nums
    IN /\ part.k = "tuple"
       /\ Len(part.c) = Len(listed)
       /\ \A k \in 1..Len(listed) :
            part.c[k] = ExpectedPosGrad(gcall.args, gcall.kwargs, listed[k])

\* C8 amended: with several positional indices the positional gradients are a
\* tuple with one tree per selected index in ascending index order (the order
\* of the indices sorted at construction), whatever order the caller listed.
C8_AscendingOrder ==
  gcall.state = "returned" /\ Len(gfun.resolved.nums) > 1 =>
    LET part == PositionalPart(gfun, gcall.out)
        listed == gfun.resolved.nums
        ascending == SortSeq(listed, <)
    IN /\ part.k = "tuple"
       /\ Len(part.c) = Len(listed)
       /\ \A k \in 1..Len(listed) :
            part.c[k] = ExpectedPosGrad(gcall.args, gcall.kwargs, ascending[k])

C8_Witness ==
  /\ gcall.state = "returned"
  /\ gfun.resolved.nums = <<1, 0>>
  /\ PositionalPart(gfun, gcall.out).c[1]
       = ExpectedPosGrad(gcall.args, gcall.kwargs, 0)
  /\ NumArrays(gcall.args[1]) # NumArrays(gcall.args[2])

\* C9: the packaging of the gradients depends on the selection only: one index
\* and no name gives the bare tree of that argument; several indices give a
\* tuple; with any name the result is the pair (positional part, dict) whose
\* dict has exactly the selected names, the positional part being the bare
\* tree, the tuple, or None when no index is selected.
PositionalPartOk(fn, call, part) ==
  LET n == Len(fn.argnums) IN
  /\ n = 0 => part = PyNone
  /\ n = 1 => part = ExpectedPosGrad(call.args, call.kwargs, fn.argnums[1])
  /\ n > 1 => part.k = "tuple" /\ Len(part.c) = n

SelectedTrees(fn, call) ==
  [k \in 1..Len(fn.argnums) |-> call.args[fn.argnums[k] + 1]]
    \o [m \in 1..Len(selected_items(fn.argnames, call.kwargs)) |->
          call.kwargs.c[selected_items(fn.argnames, call.kwargs)[m]]]
ExpectedTrees(fn, call) ==
  [k \in 1..Len(fn.argnums) |->
     ExpectedPosGrad(call.args, call.kwargs, fn.argnums[k])]
    \o [m \in 1..Len(selected_items(fn.argnames, call.kwargs)) |->
          ExpectedKwGrad(call.args, call.kwargs,
                         selected_items(fn.argnames, call.kwargs)[m])]
\* the gradient trees a call returned, in the same order
ReturnedTrees(fn, out) ==
  LET part == PositionalPart(fn, out)
      pos == IF Len(fn.argnums) = 0 THEN <<>>
             ELSE IF Len(fn.argnums) = 1 THEN <<part>> ELSE part.c
  IN IF fn.argnames = {} THEN pos ELSE pos \o KeywordPart(fn, out).c

\* C10: counts is the prefix sum of the array counts of the selected arguments
\* in flattening order; the gradient tree of the k-th selected argument has that
\* argument's structure and its leaves are the entries [counts[k], counts[k+1])
\* of the gradient list; gradient_indices is strictly increasing; the ranges
\* are disjoint and cover the gradient list; every gradient in the tree of an
\* argument is the gradient of an array of that same argument.
C10_Redistribution ==
  gcall.state = "returned" =>
    LET out == gcall.out
        sel == SelectedTrees(gfun, gcall)
        got == ReturnedTrees(gfun, out)
        counts == out.counts
    IN /\ StrictlyIncreasing(out.gradient_indices)
       /\ Len(counts) = Len(sel) + 1
       /\ counts[1] = 0
       /\ \A k \in 1..Len(sel) : counts[k + 1] = counts[k] + NumArrays(sel[k])
       /\ counts[Len(counts)] = Len(out.gradients)
       /\ Len(out.gradients) = Len(out.gradient_indices)
       /\ Len(got) = Len(sel)
       /\ \A k \in 1..Len(sel) :
            /\ Structure(got[k]) = Structure(sel[k])
            /\ tree_flatten(got[k], FALSE).arrays
                 = SubSeq(out.gradients, counts[k] + 1, counts[k + 1])
            /\ got[k] = ExpectedTrees(gfun, gcall)[k]

C10_Witness ==
  /\ gcall.state = "returned"
  /\ gfun.argnums = <<0, 2>>
  /\ gfun.argnames = {"b"}
  /\ gcall.kwargs.keys = <<"a", "b">>
  /\ gcall.out.counts = <<0, 1, 2, 4>>
  /\ gcall.out.gradient_indices = <<0, 3, 5, 6>>

(***************************************************************************)
(* The compilation cache driver: PyCompiledFun.                            *)
(*                                                                         *)
(* The constants list holds uint64_t tokens.  A token is written here as   *)
(* the int64_t with the same 64 bits, which is one-to-one: the reserved    *)
(* primes 2^64 - 59, 2^64 - 83 and 2^64 - 95 are -59, -83 and -95, and     *)
(* nb::cast<int64_t> of a Python int is the int itself.  A float is kept   *)
(* as its bit pattern, so that the reinterpret_cast reads the payload.     *)
(***************************************************************************)
array_identifier == -59
list_identifier == -83
dict_identifier == -95

\* obj.attr("__hash__")() of a str: some int64 for each string
PyHash(s) ==
  CASE s = "a" -> 11 [] s = "b" -> 12 [] s = "s" -> 13 [] OTHER -> 14

\* mutant: the token of an array is taken from the array
array_constant_of_value(obj) == obj.v

\* the token pushed for an array leaf
array_constant(obj) == array_identifier

\* the token pushed for a str, int or float leaf
leaf_constant(obj) ==
  IF obj.k = "str" THEN PyHash(obj.s) ELSE obj.v

recurse_result(err, constants, inputs) ==
  [err |-> err, constants |-> constants, inputs |-> inputs]

\* the recursive lambda of call_impl: the tokens and the arrays of one object
RECURSIVE recurse(_)
recurse(obj) ==
  IF obj.k \in {"list", "tuple"}
  THEN LET rs == [i \in 1..Len(obj.c) |-> recurse(obj.c[i])] IN
       recurse_result(
         IF \E i \in 1..Len(rs) : rs[i].err # "" THEN "invalid_argument" ELSE "",
         <<list_identifier>> \o ConcatAll([i \in 1..Len(rs) |-> rs[i].constants]),
         ConcatAll([i \in 1..Len(rs) |-> rs[i].inputs]))
  ELSE IF obj.k = "dict"
  THEN LET rs == [i \in 1..Len(obj.c) |-> recurse(obj.c[i])] IN
       recurse_result(
         IF \E i \in 1..Len(rs) : rs[i].err # "" THEN "invalid_argument" ELSE "",
         <<dict_identifier>>
           \o ConcatAll([i \in 1..Len(rs) |-> <<PyHash(obj.keys[i])>> \o rs[i].constants]),
         ConcatAll([i \in 1..Len(rs) |-> rs[i].inputs]))
  ELSE IF obj.k = "array"
  THEN recurse_result("", <<array_constant(obj)>>, <<obj>>)
  ELSE IF obj.k \in {"str", "int", "float"}
  THEN recurse_result("", <<leaf_constant(obj)>>, <<>>)
  ELSE recurse_result("invalid_argument", <<>>, <<>>)

\* recurse(args); int num_args = inputs.size(); recurse(kwargs);
flatten_call(args, kwargs) ==
  LET ra == recurse(PyTuple(args))
      rk == recurse(kwargs)
  IN [err |-> IF ra.err # "" THEN ra.err ELSE rk.err,
      constants |-> ra.constants \o rk.constants,
      inputs |-> ra.inputs \o rk.inputs,
      num_args |-> Len(ra.inputs)]

\* what the user callable of a compiled function returns, by the callable:
\* "echo" hands back its positional arguments, "first" the first array it got
Behaviours == {"echo", "first"}
user_outputs(beh, args, kwargs) ==
  IF beh = "echo" THEN PyTuple(args)
  ELSE LET xs == tree_flatten(PyList(<<PyTuple(args), kwargs>>), FALSE).arrays IN
       IF xs = <<>> THEN PyTuple(<<>>) ELSE xs[1]

(***************************************************************************)
(* State of the compilation driver.                                        *)
(*   wrappers       the PyCompiledFun objects, by slot                     *)
(*   tree_cache     the static map of tree_cache(): fun_id -> structure    *)
(*   compile_cache  the cache of the primitive layer (mx::detail::compile) *)
(*   ccall          the last call of a compiled function                   *)
(*   exited         the atexit callback has run                            *)
(***************************************************************************)

MaxWrappers == 2
MaxCalls == 2

Slots == 1..MaxWrappers
\* the calls a compiled function is given: positional arguments and keywords
CompileCalls ==
  << [args |-> <<Array(1, 1)>>, kwargs |-> PyDict(<<>>, <<>>)],
     [args |-> <<Array(2, 1)>>, kwargs |-> PyDict(<<>>, <<>>)],
     [args |-> <<Array(3, 2)>>, kwargs |-> PyDict(<<>>, <<>>)],
     [args |-> <<PyList(<<PyList(<<Array(1, 1)>>), Array(2, 1)>>)>>,
      kwargs |-> PyDict(<<>>, <<>>)],
     [args |-> <<PyList(<<PyList(<<Array(1, 1), Array(2, 1)>>)>>)>>,
      kwargs |-> PyDict(<<>>, <<>>)],
     [args |-> <<Array(1, 1), PyInt(1), PyStr("s")>>,
      kwargs |-> PyDict(<<"a", "b">>, <<Array(2, 1), PyFloat(1)>>)],
     [args |-> <<Array(1, 1), PyNone>>, kwargs |-> PyDict(<<>>, <<>>)] >>

\* the callables that get wrapped: fun is the address of the callable and beh
\* what it does; the first two are different callables at the same address,
\* one allocated after the other was freed; the last one raises when it is
\* called
Callables ==
  { [fun |-> 1, beh |-> "echo"], [fun |-> 1, beh |-> "first"],
    [fun |-> 2, beh |-> "echo"], [fun |-> 3, beh |-> "raise"] }

\* a PyCompiledFun: fun is the callable it holds (0 once reset or moved away),
\* beh what that callable does; fresh is history: no call was made through
\* this wrapper yet
Wrapper(state, fun, beh, fun_id, captured_inputs, captured_outputs, shapeless, num_outputs, fresh) ==
  [state |-> state, fun |-> fun, beh |-> beh, fun_id |-> fun_id,
   captured_inputs |-> captured_inputs, captured_outputs |-> captured_outputs,
   shapeless |-> shapeless, num_outputs |-> num_outputs, fresh |-> fresh]

FreeSlot == Wrapper("free", 0, "", 0, PyNone, PyNone, FALSE, 0, TRUE)

\* an object whose destructor has run; fun_id is what it erased the caches by
Destroyed(fun_id, fresh) ==
  Wrapper("destroyed", 0, "", fun_id, PyNone, PyNone, FALSE, 0, fresh)

\* the state a compiled function captures (mx.compile(fun, inputs, outputs)):
\* none, or one tree whose arrays are read and one whose arrays are written
CapturedInputs(captures) == IF captures THEN PyList(<<Array(5, 1)>>) ELSE PyNone
CapturedOutputs(captures) == IF captures THEN PyList(<<Array(6, 1)>>) ELSE PyNone

\* what one run of compile_fun did: the arguments it rebuilt for the user
\* callable, the tracers it put into the captured inputs, and what it returned
Callback(ran, trace_args, trace_kwargs, trace_captures, outputs, py_outputs,
         num_outputs) ==
  [ran |-> ran, trace_args |-> trace_args, trace_kwargs |-> trace_kwargs,
   trace_captures |-> trace_captures, outputs |-> outputs,
   py_outputs |-> py_outputs, num_outputs |-> num_outputs]

NoCallback == Callback(FALSE, <<>>, PyNone, <<>>, <<>>, PyNone, 0)

NoCompileCall ==
  [n |-> 0, w |-> 0, b |-> 0, err |-> "",
   constants |-> <<>>, inputs |-> <<>>, num_args |-> 0, hit |-> FALSE,
   invoked |-> FALSE, outputs |-> <<>>, result |-> PyNone,
   beh |-> "", captured_inputs |-> PyNone, capturing |-> FALSE, captures |-> <<>>,
   captured_outputs |-> PyNone, callback |-> NoCallback]

CompileInit ==
  /\ wrappers = [w \in Slots |-> FreeSlot]
  /\ tree_cache = <<>>
  /\ compile_cache = {}
  /\ ccall = NoCompileCall
  /\ exited = FALSE

\* tree_cache().insert({fun_id, py_outputs}): std::unordered_map::insert keeps
\* the element that is already there
tree_cache_insert(tc, fun_id, py_outputs) ==
  IF fun_id \in DOMAIN tc THEN tc
  ELSE [k \in DOMAIN tc \cup {fun_id} |-> IF k = fun_id THEN py_outputs ELSE tc[k]]

\* mutant: the destructor leaves the recorded structure in place
tree_cache_erase_nothing(tc, fun_id) == tc

\* tree_cache().erase(fun_id)
tree_cache_erase(tc, fun_id) == [k \in DOMAIN tc \ {fun_id} |-> tc[k]]

\* mx::detail::compile_erase(fun_id)
compile_erase(cc, fun_id) == {e \in cc : e.fun_id # fun_id}

\* the shapes the primitive layer compares the inputs of a call by
input_shapes(inputs) == [i \in 1..Len(inputs) |-> inputs[i].nd]

\* the entries of the primitive layer's cache that a call can reuse
cache_find(cc, fun_id, shapeless, constants, inputs) ==
  {e \in cc : /\ e.fun_id = fun_id
              /\ e.shapeless = shapeless
              /\ e.constants = constants
              /\ e.shapes = input_shapes(inputs)}

\* the array a compiled graph computes from an input it hands through
Computed(x) == Node("array", x.v, x.nd, "out", <<>>, <<>>)

\* running a traced graph: output i is computed from input trace[i]
run_trace(trace, inputs) ==
  [i \in 1..Len(trace) |->
     IF trace[i] + 1 \in 1..Len(inputs) THEN Computed(inputs[trace[i] + 1]) ELSE Missing]

\* mutant: the tracers of the captured inputs are taken from the front of a
trace_captures_mixed_with_arguments(w, a) ==
  IF w.captured_inputs.k = "none" THEN <<>>
  ELSE SubSeq(a, 1, NumArrays(w.captured_inputs))

\* trace_captures: a.end() - flat_in_captures.size() to a.end()
trace_captures_of(w, a) ==
  IF w.captured_inputs.k = "none" THEN <<>>
  ELSE SubSeq(a, Len(a) - NumArrays(w.captured_inputs) + 1, Len(a))

\* the captured outputs when the user callable returns: a callable with
\* captured state hands what it read from the captured inputs on to the
\* captured outputs
flat_out_captures(w, trace_captures) ==
  IF w.captured_outputs.k = "none" THEN <<>>
  ELSE tree_flatten(tree_fill(w.captured_outputs, trace_captures), FALSE).arrays

\* the second half of compile_fun: the value of the user callable is
\* flattened, num_outputs is set and the captured outputs are appended
compiled_outputs(trace_args, trace_kwargs, trace_captures, tree_outputs, out_captures) ==
  Callback(TRUE, trace_args, trace_kwargs, trace_captures,
           tree_flatten(tree_outputs, FALSE).arrays \o out_captures,
           Structure(tree_outputs),
           Len(tree_flatten(tree_outputs, FALSE).arrays))

\* the user callable is called on the rebuilt arguments; when it raises
\* the exception leaves compile_fun at the call
traced_outputs(w, trace_args, trace_kwargs, trace_captures) ==
  IF w.beh = "raise"
  THEN Callback(TRUE, trace_args, trace_kwargs, trace_captures, <<>>, PyNone,
                w.num_outputs)
  ELSE compiled_outputs(trace_args, trace_kwargs, trace_captures,
               user_outputs(w.beh, trace_args, trace_kwargs),
               flat_out_captures(w, trace_captures))

\* the callback compile_fun, run on the tracers a: what the user callable
\* returned, flat, and the structure of it
compile_fun(w, args, kwargs, num_args, a) ==
  traced_outputs(w,
    tree_unflatten(PyTuple(args), a, 0).c,
    tree_unflatten(kwargs, a, num_args),
    trace_captures_of(w, a))

\* what call_impl leaves behind: the record of the call and the new state
CompileOutcome(err, fl, hit, invoked, outputs, result, num_outputs, tc, cc) ==
  [err |-> err, constants |-> fl.constants, inputs |-> fl.inputs,
   num_args |-> fl.num_args, hit |-> hit, invoked |-> invoked,
   outputs |-> outputs, result |-> result, num_outputs |-> num_outputs,
   tree_cache |-> tc, compile_cache |-> cc]

\* nb::object py_outputs = tree_cache().at(fun_id); tree_unflatten(py_outputs,
\* outputs): at() throws std::out_of_range when the identity has no structure
unflatten_outputs(w, fl, hit, outputs, num_outputs, tc, cc) ==
  IF w.fun_id \notin DOMAIN tc
  THEN CompileOutcome("out_of_range", fl, hit, ~hit, outputs, PyNone,
                      num_outputs, tc, cc)
  ELSE CompileOutcome(
         IF HasMissing(tree_unflatten(tc[w.fun_id], outputs, 0)) THEN "ArityError" ELSE "",
         fl, hit, ~hit, outputs, tree_unflatten(tc[w.fun_id], outputs, 0),
         num_outputs, tc, cc)

\* the graph of the entry is run on the inputs of the call
run_entry(w, fl, hit, entry, num_outputs, tc, cc) ==
  unflatten_outputs(w, fl, hit, run_trace(entry.trace, fl.inputs), num_outputs,
                    tc, cc \cup {entry})

\* a miss: compile_fun has run on the tracers; the primitive layer stores the
\* graph, compile_fun has inserted the structure and set num_outputs
trace_entry(w, call, fl, traced) ==
  [fun_id |-> w.fun_id, shapeless |-> w.shapeless,
   constants |-> fl.constants, shapes |-> input_shapes(fl.inputs),
   trace |-> [i \in 1..Len(traced.outputs) |-> traced.outputs[i].v],
   py_outputs |-> traced.py_outputs, traced_by |-> call]

\* the tracers compile_fun is run on: one for each input of the call
tracers(inputs) == [i \in 1..Len(inputs) |-> Tracer(i - 1, inputs[i])]

\* mx::detail::compile(compile_fun, fun_id, shapeless, constants)(inputs): the
\* call is looked up by (fun_id, shapeless, constants, input shapes); on a miss
\* compile_fun runs on tracers and the graph is stored; a run of compile_fun
\* that ends with an exception stores nothing
detail_compile(w, call, args, kwargs, tc, cc, fl, found) ==
  IF found # {}
  THEN run_entry(w, fl, TRUE, CHOOSE e \in found : TRUE, w.num_outputs, tc, cc)
  ELSE \* the bound name is the result of the one run of compile_fun
       LET miss(traced) ==
             IF w.beh = "raise"
             THEN CompileOutcome("UserError", fl, FALSE, TRUE, <<>>, PyNone,
                                 w.num_outputs, tc, cc)
             ELSE
             run_entry(w, fl, FALSE, trace_entry(w, call, fl, traced),
                       traced.num_outputs,
                       tree_cache_insert(tc, w.fun_id, traced.py_outputs), cc)
       IN miss(compile_fun(w, args, kwargs, fl.num_args, tracers(fl.inputs)))

\* call_impl once the arguments are flattened into fl
call_flattened(w, call, args, kwargs, tc, cc, fl) ==
  IF fl.err # ""
  THEN CompileOutcome(fl.err, [fl EXCEPT !.constants = <<>>, !.inputs = <<>>],
                      FALSE, FALSE, <<>>, PyNone, w.num_outputs, tc, cc)
  ELSE detail_compile(w, call, args, kwargs, tc, cc, fl,
                      cache_find(cc, w.fun_id, w.shapeless, fl.constants, fl.inputs))

\* lines 525-531: the arrays of the captured inputs go after the arrays of
\* the call
with_captured_inputs(w, fl) ==
  IF fl.err # "" \/ w.captured_inputs.k = "none" THEN fl
  ELSE [fl EXCEPT !.inputs = @ \o tree_flatten(w.captured_inputs, FALSE).arrays]

\* captures(outputs.begin() + num_outputs, outputs.end()); a num_outputs past
\* the end is outside the vector and yields whatever is there
split_captures(outputs, num_outputs, junk) ==
  IF num_outputs <= Len(outputs)
  THEN SubSeq(outputs, num_outputs + 1, Len(outputs))
  ELSE <<junk>>

\* tree_fill(captured_outputs, captures): a leaf takes the next value; past
\* the end of captures the read is out of bounds and yields whatever is there
fill_captured_outputs(captured_outputs, captures, junk) ==
  tree_fill(captured_outputs,
            [i \in 1..NumArrays(captured_outputs) |->
               IF i \in 1..Len(captures) THEN captures[i] ELSE junk])

\* lines 536-541, which run once the primitive has returned its outputs
with_captured_outputs(w, out, captures, junk) ==
  out @@ [captures |-> captures,
          captured_outputs |->
            IF w.captured_outputs.k = "none" \/ ~(out.hit \/ out.invoked)
               \/ out.err = "UserError"
            THEN w.captured_outputs
            ELSE fill_captured_outputs(w.captured_outputs, captures, junk)]

fill_captures(w, out, junk) ==
  with_captured_outputs(w, out,
    IF w.captured_outputs.k = "none" \/ ~(out.hit \/ out.invoked)
       \/ out.err = "UserError" THEN <<>>
    ELSE split_captures(out.outputs, out.num_outputs, junk),
    junk)

\* PyCompiledFun::call_impl with compilation enabled
call_impl(w, call, args, kwargs, tc, cc, junk) ==
  fill_captures(w,
    call_flattened(w, call, args, kwargs, tc, cc,
                   with_captured_inputs(w, flatten_call(args, kwargs))),
    junk)

\* tree_replace(tree, src, dst): every leaf that is src[i] becomes dst[i]
replaced_leaf(x, src, dst) ==
  IF \E i \in 1..Len(src) : src[i] = x
  THEN dst[CHOOSE i \in 1..Len(src) : src[i] = x]
  ELSE x

tree_replace(t, src, dst) ==
  tree_fill(t, [i \in 1..NumArrays(t) |->
                  replaced_leaf(tree_flatten(t, FALSE).arrays[i], src, dst)])

\* the captured inputs after the call: a run of compile_fun fills them with
\* the trailing tracers (line 499) and, once the user callable has returned,
\* puts the originals back (lines 518-521)
captured_inputs_after(w, invoked, raised, trace_captures) ==
  IF w.captured_inputs.k = "none" \/ ~invoked THEN w.captured_inputs
  ELSE IF raised THEN tree_fill(w.captured_inputs, trace_captures)
  ELSE tree_replace(tree_fill(w.captured_inputs, trace_captures), trace_captures,
                    tree_flatten(w.captured_inputs, FALSE).arrays)

\* objects take the slots in order: w is the slot of the next object
NextSlot(w) ==
  /\ wrappers[w].state = "free"
  /\ \A v \in Slots : v < w => wrappers[v].state # "free"

\* mx.compile(fun, ...): PyCompiledFun{fun, inputs, outputs, shapeless}.  A
\* callable that a live wrapper holds keeps its address, so another wrapper
\* made for that address wraps the same callable.
Construct(w, fun, beh, shapeless, captures) ==
  /\ ~exited
  /\ NextSlot(w)
  /\ \A v \in Slots : wrappers[v].fun = fun => wrappers[v].beh = beh
  /\ wrappers' = [wrappers EXCEPT ![w] = Wrapper("live", fun, beh, fun, CapturedInputs(captures),
                                  CapturedOutputs(captures), shapeless, 0, TRUE)]
  /\ UNCHANGED <<tree_cache, compile_cache, ccall, exited>>
  /\ UNCHANGED <<gvars, ovars>>

\* mutant: the wrapper moved from keeps its identity
moved_from_with_identity(other) ==
  [other EXCEPT !.state = "moved_from", !.fun = 0,
                !.captured_inputs = PyNone, !.captured_outputs = PyNone]

\* what the move constructor leaves in other: fun(std::move(other.fun)),
\* other.fun_id = 0, the captured trees moved out
moved_from(other) ==
  [other EXCEPT !.state = "moved_from", !.fun = 0, !.fun_id = 0,
                !.captured_inputs = PyNone, !.captured_outputs = PyNone]

\* PyCompiledFun(PyCompiledFun&& other): a new object in slot w made from v
Move(v, w) ==
  /\ wrappers[v].state = "live"
  /\ NextSlot(w)
  /\ wrappers' = [wrappers EXCEPT
        ![w] = Wrapper("live", wrappers[v].fun, wrappers[v].beh, wrappers[v].fun,
                       wrappers[v].captured_inputs, wrappers[v].captured_outputs,
                       wrappers[v].shapeless, wrappers[v].num_outputs,
                       wrappers[v].fresh),
        ![v] = moved_from(@)]
  /\ UNCHANGED <<tree_cache, compile_cache, ccall, exited>>
  /\ UNCHANGED <<gvars, ovars>>

\* ~PyCompiledFun()
Destroy(w) ==
  /\ wrappers[w].state \in {"live", "moved_from"}
  /\ tree_cache' = tree_cache_erase(tree_cache, wrappers[w].fun_id)
  /\ compile_cache' = compile_erase(compile_cache, wrappers[w].fun_id)
  /\ wrappers' = [wrappers EXCEPT ![w] = Destroyed(wrappers[w].fun_id, wrappers[w].fresh)]
  /\ UNCHANGED <<ccall, exited>>
  /\ UNCHANGED <<gvars, ovars>>

\* what a read outside a vector of arrays can yield
JunkArrays == {Missing, Array(0, 0)}

\* PyCompiledFun::operator(): a call of the compiled function in slot w with
\* the b-th call of CompileCalls
Call(w, b, junk) ==
  /\ ~exited
  /\ wrappers[w].state = "live"
  /\ ccall.n < MaxCalls
  /\ \E out \in {call_impl(wrappers[w], b, CompileCalls[b].args, CompileCalls[b].kwargs,
                          tree_cache, compile_cache, junk)} :
        /\ tree_cache' = out.tree_cache
        /\ compile_cache' = out.compile_cache
        /\ wrappers' = [wrappers EXCEPT ![w] =
                          [@ EXCEPT !.num_outputs = out.num_outputs, !.fresh = FALSE,
                                    !.captured_outputs = out.captured_outputs,
                                    !.captured_inputs =
                                       captured_inputs_after(wrappers[w], out.invoked,
                                         out.err = "UserError",
                                         trace_captures_of(wrappers[w],
                                                           tracers(out.inputs)))]]
        /\ ccall' = [n |-> ccall.n + 1, w |-> w, b |-> b, err |-> out.err,
                     constants |-> out.constants, inputs |-> out.inputs,
                     num_args |-> out.num_args, hit |-> out.hit,
                     invoked |-> out.invoked, outputs |-> out.outputs,
                     result |-> out.result,
                     beh |-> wrappers[w].beh,
                     captured_inputs |-> wrappers[w].captured_inputs,
                     capturing |-> wrappers[w].captured_outputs.k # "none",
                     captures |-> out.captures,
                     captured_outputs |-> out.captured_outputs,
                     callback |->
                       IF out.invoked
                       THEN compile_fun(wrappers[w], CompileCalls[b].args,
                                        CompileCalls[b].kwargs, out.num_args,
                                        tracers(out.inputs))
                       ELSE NoCallback]
  /\ UNCHANGED exited
  /\ UNCHANGED <<gvars, ovars>>

\* the callback registered with atexit
AtExit ==
  /\ ~exited
  /\ tree_cache' = <<>>
  /\ compile_cache' = {}
  /\ exited' = TRUE
  /\ UNCHANGED <<wrappers, ccall>>
  /\ UNCHANGED <<gvars, ovars>>

CompileNext ==
  \/ \E w \in Slots, c \in Callables, shapeless \in BOOLEAN, captures \in BOOLEAN :
       Construct(w, c.fun, c.beh, shapeless, captures)
  \/ \E v \in Slots, w \in Slots : Move(v, w)
  \/ \E w \in Slots : Destroy(w)
  \/ \E w \in Slots, b \in 1..Len(CompileCalls), junk \in JunkArrays : Call(w, b, junk)
  \/ AtExit

(***************************************************************************)
(* The vectorization driver: py_vmap.                                      *)
(***************************************************************************)

MaxAxis == 2
\* the integers an axis is drawn from
AxisValues == (0 - MaxAxis - 1)..MaxAxis

\* what the visitor of axes_to_flat_tree leaves behind
axes_result(err, flat_axes, encountered_tuple) ==
  [err |-> err, flat_axes |-> flat_axes, encountered_tuple |-> encountered_tuple]

\* mutant: a negative axis counts from the rank, also for output axes
normalized_axis_from_rank(axis, ndim, output_axes) ==
  IF axis < 0 THEN axis + ndim ELSE axis

\* if (axis < 0) axis += x.ndim() + output_axes;
normalized_axis(axis, ndim, output_axes) ==
  IF axis < 0 THEN axis + ndim + (IF output_axes THEN 1 ELSE 0) ELSE axis

\* if (axis < 0 || axis >= (x.ndim() + output_axes)) throw
axis_out_of_range(axis, ndim, output_axes) ==
  axis < 0 \/ axis >= ndim + (IF output_axes THEN 1 ELSE 0)

\* the int branch of the visitor, shared by a bare int and a 1-tuple of an int
visit_int_axis(x, axis, output_axes, encountered_tuple) ==
  IF axis_out_of_range(normalized_axis(axis, x.nd, output_axes), x.nd, output_axes)
  THEN axes_result("invalid_argument", <<>>, encountered_tuple)
  ELSE axes_result("", <<normalized_axis(axis, x.nd, output_axes)>>, encountered_tuple)

\* the visitor of axes_to_flat_tree on one pair of leaves
visit_axis(x, axis, output_axes) ==
  IF ~IsArray(x) THEN axes_result("invalid_argument", <<>>, FALSE)
  ELSE IF axis.k = "none" THEN axes_result("", <<-1>>, FALSE)
  ELSE IF axis.k = "int" THEN visit_int_axis(x, axis.v, output_axes, FALSE)
  ELSE IF axis.k = "tuple"
  THEN IF Len(axis.c) = 1 /\ axis.c[1].k = "int"
       THEN visit_int_axis(x, axis.c[1].v, output_axes, TRUE)
       ELSE IF Len(axis.c) = 1 /\ axis.c[1].k = "none"
       THEN axes_result("", <<-1>>, TRUE)
       ELSE axes_result("invalid_argument", <<>>, TRUE)
  ELSE axes_result("invalid_argument", <<>>, FALSE)

\* the first error of a sequence of results, "" when there is none
RECURSIVE first_error(_)
first_error(rs) ==
  IF rs = <<>> THEN ""
  ELSE IF Head(rs).err # "" THEN Head(rs).err ELSE first_error(Tail(rs))

\* the results of the visitor up to and including the first that failed
RECURSIVE until_error(_)
until_error(rs) ==
  IF rs = <<>> THEN <<>>
  ELSE IF Head(rs).err # "" THEN <<Head(rs)>> ELSE <<Head(rs)>> \o until_error(Tail(rs))

\* tree_visit({tree, axes}, visitor): the two trees are walked in lockstep; a
\* container of axes has to be of the kind and size of the container of the
\* tree, an axis that is not a container stands for every leaf below
RECURSIVE tree_visit_axes(_, _, _)
tree_visit_axes(tree, axes, output_axes) ==
  IF IsContainer(tree)
  THEN IF IsContainer(axes)
          /\ (axes.k # tree.k \/ Len(axes.c) # Len(tree.c) \/ axes.keys # tree.keys)
       THEN axes_result("StructureMismatchError", <<>>, FALSE)
       ELSE LET rs == until_error(
                        [i \in 1..Len(tree.c) |->
                           tree_visit_axes(tree.c[i],
                                           IF IsContainer(axes) THEN axes.c[i] ELSE axes,
                                           output_axes)])
            IN axes_result(first_error(rs),
                           ConcatAll([i \in 1..Len(rs) |-> rs[i].flat_axes]),
                           \E i \in 1..Len(rs) : rs[i].encountered_tuple)
  ELSE visit_axis(tree, axes, output_axes)

\* the lambda axes_to_flat_tree: the walk, then the check of line 353
flat_tree_checked(tree, r) ==
  IF r.err # "" THEN [err |-> r.err, flat_axes |-> <<>>]
  ELSE IF r.encountered_tuple /\ ~IsArray(tree)
  THEN [err |-> "invalid_argument", flat_axes |-> <<>>]
  ELSE [err |-> "", flat_axes |-> r.flat_axes]

axes_to_flat_tree(tree, axes, output_axes) ==
  flat_tree_checked(tree, tree_visit_axes(tree, axes, output_axes))

(***************************************************************************)
(* State of the vectorization driver: vcall, the last call of a vmapped    *)
(* function or the last application of axes_to_flat_tree.  resolved lists  *)
(* the applications of axes_to_flat_tree that were made, in order.         *)
(***************************************************************************)

\* the axis specs a caller can give: None, a str, an int, a 1-tuple of an int
\* or of None, and containers that go with a tuple or a list of two arrays
AxisSpecs ==
  {PyNone, PyStr("x"), PyTuple(<<PyNone>>), PyTuple(<<PyInt(0), PyNone>>),
   PyTuple(<<PyInt(-1), PyInt(-1)>>), PyList(<<PyInt(1), PyInt(0)>>)}
    \cup {PyInt(a) : a \in AxisValues}
    \cup {PyTuple(<<PyInt(a)>>) : a \in AxisValues}

\* the positional arguments a vmapped function is called with
VmapArgs ==
  { <<Array(1, 2)>>,
    <<Array(1, 2), Array(2, 1)>>,
    <<PyList(<<Array(1, 2), Array(2, 1)>>)>>,
    <<Array(1, 2), PyInt(5)>> }

\* the trees axes_to_flat_tree is applied to
VmapTrees ==
  { Array(1, 2), Array(2, 1), PyInt(5),
    PyTuple(<<Array(1, 2), Array(2, 1)>>),
    PyList(<<Array(1, 2), Array(2, 1)>>),
    PyTuple(<<Array(1, 2), PyInt(5)>>) }

\* what the vmapped callable returns from the arrays it is given
VmapKinds == {"first", "pair", "list_int"}
vmap_outputs(kind, a) ==
  CASE kind = "first" -> a[1]
    [] kind = "pair" -> PyTuple(<<a[1], a[Len(a)]>>)
    [] OTHER -> PyList(<<a[1], PyInt(5)>>)

\* mx::detail::vmap_trace: the tracer of an input loses the vectorized axis
vmap_tracer(i, x, axis) ==
  Node("array", i, IF axis >= 0 THEN x.nd - 1 ELSE x.nd, "tracer", <<>>, <<>>)

\* mx::detail::vmap_replace: an output gains the axis it is vectorized over
vmap_output(x, axis) ==
  Node("array", x.v, IF axis >= 0 THEN x.nd + 1 ELSE x.nd, "out", <<>>, <<>>)

Resolved(tree, axes, output_axes, res) ==
  [tree |-> tree, axes |-> axes, output_axes |-> output_axes, res |-> res]

VmapOutcome(err, resolved, result) ==
  [err |-> err, resolved |-> resolved, result |-> result]

\* the second half of the closure: fun has run on the tracers
vmap_traced(out_axes, py_outputs, flat_outputs, r_in) ==
  IF flat_outputs.err # ""
  THEN VmapOutcome(flat_outputs.err, <<r_in>>, PyNone)
  ELSE LET finish(r_out) ==
             IF r_out.res.err # "" THEN VmapOutcome(r_out.res.err, <<r_in, r_out>>, PyNone)
             ELSE VmapOutcome("", <<r_in, r_out>>,
                    tree_unflatten(py_outputs,
                      [i \in 1..Len(flat_outputs.arrays) |->
                         vmap_output(flat_outputs.arrays[i], r_out.res.flat_axes[i])], 0))
       IN finish(Resolved(py_outputs, out_axes, TRUE,
                          axes_to_flat_tree(py_outputs, out_axes, TRUE)))

\* the closure once the input axes are resolved into r_in
vmap_resolved(args, out_axes, kind, inputs, r_in) ==
  IF r_in.res.err # "" THEN VmapOutcome(r_in.res.err, <<r_in>>, PyNone)
  ELSE LET run(py_outputs) ==
             vmap_traced(out_axes, py_outputs, tree_flatten(py_outputs, TRUE), r_in)
       IN run(vmap_outputs(kind,
                [i \in 1..Len(inputs) |->
                   vmap_tracer(i - 1, inputs[i], r_in.res.flat_axes[i])]))

\* the closure py_vmap returns
vmap_closure(args, in_axes, out_axes, kind) ==
  LET flat(inputs) ==
        IF inputs.err # "" THEN VmapOutcome(inputs.err, <<>>, PyNone)
        ELSE vmap_resolved(args, out_axes, kind, inputs.arrays,
               Resolved(IF Len(args) = 1 THEN args[1] ELSE PyTuple(args), in_axes, FALSE,
                        axes_to_flat_tree(IF Len(args) = 1 THEN args[1] ELSE PyTuple(args),
                                          in_axes, FALSE)))
  IN flat(tree_flatten(PyTuple(args), TRUE))

NoVmapCall ==
  [op |-> "none", args |-> <<>>, in_axes |-> PyNone, out_axes |-> PyNone,
   kind |-> "", out |-> VmapOutcome("", <<>>, PyNone)]

VmapInit == vcall = NoVmapCall

\* a call of the function vmap returned
vmap_call(args, in_axes, out_axes, kind) ==
  /\ vcall.op = "none"
  /\ vcall' = [op |-> "call", args |-> args, in_axes |-> in_axes,
               out_axes |-> out_axes, kind |-> kind,
               out |-> vmap_closure(args, in_axes, out_axes, kind)]
  /\ UNCHANGED <<gvars, cvars, kvars, fvars, evars, svars>>

\* axes_to_flat_tree applied to a tree and an axis spec
resolve_axes(tree, axes, output_axes) ==
  /\ vcall.op = "none"
  /\ vcall' = [NoVmapCall EXCEPT
                 !.op = "axes_to_flat_tree",
                 !.out = VmapOutcome("", <<Resolved(tree, axes, output_axes,
                            axes_to_flat_tree(tree, axes, output_axes))>>, PyNone)]
  /\ UNCHANGED <<gvars, cvars, kvars, fvars, evars, svars>>

VmapNext ==
  \/ \E args \in VmapArgs, in_axes \in AxisSpecs, out_axes \in AxisSpecs,
        kind \in VmapKinds : vmap_call(args, in_axes, out_axes, kind)
  \/ \E tree \in VmapTrees, axes \in AxisSpecs, output_axes \in BOOLEAN :
       resolve_axes(tree, axes, output_axes)

(***************************************************************************)
(* The checkpoint driver: PyCheckpointedFun.                               *)
(*   kcall  the last call of a checkpointed function: n counts the calls,  *)
(*          output_structure is the object the call made for the closure   *)
(*          to record into, expired whether the call has let go of it,     *)
(*          runs counts the runs of the closure of this call, first and    *)
(*          last are what the first and the latest run produced            *)
(***************************************************************************)

MaxRuns == 2

\* what one run of the closure produces
inner_result(tree_outputs) ==
  [outputs |-> tree_flatten(tree_outputs, FALSE).arrays,
   output_structure |-> Structure(tree_outputs)]

\* InnerFunction::operator(): the call is rebuilt from args_structure_ and the
\* inputs, fun_ is called and its value is flattened
inner_function(beh, args_structure, inputs) ==
  LET call(args) == inner_result(user_outputs(beh, args.c[1].c, args.c[2]))
  IN call(tree_unflatten(args_structure, inputs, 0))

\* mutant: a run that finds the object gone leaves no structure behind
record_structure_or_none(slot, expired, output_structure) ==
  IF ~expired THEN output_structure ELSE PyNone

\* if (auto s = output_structure_.lock()) { *s = output_structure; }
record_structure(slot, expired, output_structure) ==
  IF ~expired THEN output_structure ELSE slot

RunRecord(r) == [n |-> Len(r.outputs), output_structure |-> r.output_structure]

\* what the object holds after k runs of the closure that all produced r
RECURSIVE after_runs(_, _, _, _)
after_runs(k, slot, expired, r) ==
  IF k = 0 THEN slot
  ELSE after_runs(k - 1, record_structure(slot, expired, r.output_structure), expired, r)

\* mutant: the object of the call before is used again
slot_of_last_call(n) == n

\* auto output_structure = std::make_shared<nb::object>();  the object of the
\* n-th call so far is a new one
make_shared(n) == n + 1

\* the objects at the start of a call: the new one, empty and owned by
\* call_impl, and the one of the call before, which nobody owns any more
slots_at_call(call, id) ==
  (id :> [alive |-> TRUE, value |-> PyNone])
    @@ (call.slot :> [alive |-> FALSE, value |-> call.output_structure])

\* a run of a closure writes through its weak pointer
slot_write(slots, id, output_structure) ==
  [slots EXCEPT ![id].value = record_structure(@, ~slots[id].alive, output_structure)]

\* the closure of the call before, run again on the inputs of that call
previous_run(call) == inner_function(call.beh, call.args_structure, call.inputs)

\* fun_ of the running call makes the primitive layer run the closure of the
\* call before again
nested_run(slots, call, nested) ==
  IF nested /\ call.n > 0
  THEN slot_write(slots, call.slot, previous_run(call).output_structure)
  ELSE slots

\* the other runs of the closure of the running call
rest_runs(slots, id, k, r) ==
  [slots EXCEPT ![id].value = after_runs(k, @, FALSE, r)]

\* the objects when mx::checkpoint(...)(inputs) returns
checkpoint_slots(call, id, r, forward_runs, nested) ==
  rest_runs(nested_run(slot_write(slots_at_call(call, id), id, r.output_structure),
                       call, nested),
            id, forward_runs - 1, r)

NoRun == [n |-> 0, output_structure |-> PyNone]

\* what is kept of the call before: its object and what it held, and what a
\* nested run of its closure produced
Previous(call, slots, nested) ==
  [n |-> call.n, slot |-> call.slot, held |-> call.output_structure,
   output_structure |-> slots[call.slot].value, first |-> call.first,
   nested |-> nested /\ call.n > 0,
   run |-> IF nested /\ call.n > 0 THEN RunRecord(previous_run(call)) ELSE NoRun]

NoCheckpointCall ==
  [n |-> 0, args |-> <<>>, kwargs |-> PyDict(<<>>, <<>>), beh |-> "",
   inputs |-> <<>>, args_structure |-> PyNone, output_structure |-> PyNone,
   expired |-> TRUE, forward_runs |-> 0, recomputed |-> 0,
   first |-> NoRun, last |-> NoRun, result |-> PyNone, slot |-> 0,
   prev |-> [n |-> 0, slot |-> 0, held |-> PyNone, output_structure |-> PyNone,
             first |-> NoRun, nested |-> FALSE, run |-> NoRun]]

CheckpointInit == kcall = NoCheckpointCall

\* PyCheckpointedFun::call_impl: mx::checkpoint(InnerFunction(...))(inputs) runs
\* the closure forward_runs times before it returns the outputs; returning
\* from call_impl drops the only owner of output_structure
checkpoint_call(args, kwargs, beh, forward_runs, nested) ==
  /\ kcall.n < MaxCalls
  /\ \E flat \in {tree_flatten(PyTuple(<<PyTuple(args), kwargs>>), FALSE).arrays} :
     \E r \in {inner_function(beh, Structure(PyTuple(<<PyTuple(args), kwargs>>)), flat)} :
     \E slots \in {checkpoint_slots(kcall, make_shared(kcall.n), r, forward_runs, nested)} :
     \E slot \in {slots[make_shared(kcall.n)].value} :
       kcall' = [slot |-> make_shared(kcall.n), prev |-> Previous(kcall, slots, nested),
                 n |-> kcall.n + 1, args |-> args, kwargs |-> kwargs, beh |-> beh,
                 inputs |-> flat,
                 args_structure |-> Structure(PyTuple(<<PyTuple(args), kwargs>>)),
                 output_structure |-> slot,
                 expired |-> TRUE, forward_runs |-> forward_runs, recomputed |-> 0,
                 first |-> RunRecord(r), last |-> RunRecord(r),
                 result |-> tree_unflatten(slot,
                              [i \in 1..Len(r.outputs) |-> Computed(r.outputs[i])], 0)]
  /\ UNCHANGED <<gvars, cvars, vvars, fvars, evars, svars>>

\* the primitive layer runs the closure of the last call again, on the inputs
\* of that call, to recompute what it did not keep
recompute ==
  /\ kcall.n > 0
  /\ kcall.recomputed < MaxRuns
  /\ \E r \in {inner_function(kcall.beh, kcall.args_structure, kcall.inputs)} :
       kcall' = [kcall EXCEPT
                   !.recomputed = @ + 1,
                   !.last = RunRecord(r),
                   !.output_structure =
                      record_structure(@, kcall.expired, r.output_structure)]
  /\ UNCHANGED <<gvars, cvars, vvars, fvars, evars, svars>>

CheckpointNext ==
  \/ \E b \in 1..Len(CompileCalls), beh \in Behaviours, forward_runs \in 1..MaxRuns,
        nested \in BOOLEAN :
       checkpoint_call(CompileCalls[b].args, CompileCalls[b].kwargs, beh, forward_runs,
                       nested)
  \/ recompute

(***************************************************************************)
(* The custom-function driver: PyCustomFunction.                           *)
(***************************************************************************)

\* the calls a custom function is given: positional arguments and keywords
CustomCalls ==
  << [args |-> <<Array(1, 1)>>, kwargs |-> PyDict(<<>>, <<>>)],
     [args |-> <<Array(1, 1), Array(2, 1)>>, kwargs |-> PyDict(<<>>, <<>>)],
     [args |-> <<PyList(<<Array(1, 1), Array(2, 1)>>)>>, kwargs |-> PyDict(<<>>, <<>>)],
     [args |-> <<Array(1, 1), PyInt(1), Array(2, 1)>>, kwargs |-> PyDict(<<>>, <<>>)],
     [args |-> <<Array(1, 1)>>, kwargs |-> PyDict(<<"a">>, <<Array(2, 1)>>)] >>

\* the members of a PyCustomFunction that hold a callable
Overrides == <<"vjp_fun_", "jvp_fun_", "vmap_fun_">>
Members == <<"fun_">> \o Overrides

\* a PyCustomFunction: beh is what fun_ does, the three optionals are TRUE
\* when they have a value (has_value()), held are the members whose handle
\* is not null, ready is nb::inst_ready of the instance
CustomFunction(beh, vjp, jvp, vmap) ==
  [beh |-> beh, vjp_fun_ |-> vjp, jvp_fun_ |-> jvp, vmap_fun_ |-> vmap, ready |-> TRUE,
   held |-> {"fun_"} \cup (IF vjp THEN {"vjp_fun_"} ELSE {})
              \cup (IF jvp THEN {"jvp_fun_"} ELSE {})
              \cup (IF vmap THEN {"vmap_fun_"} ELSE {})]

\* auto full_args = nb::make_tuple(args, kwargs);
full_args(args, kwargs) == PyTuple(<<PyTuple(args), kwargs>>)

\* an output of the primitive custom_function
custom_output(x) == Node("array", x.v, x.nd, "custom", <<>>, <<>>)

\* tree_flatten_with_structure(fun_(*new_inputs[0], **new_inputs[1])): the
\* flattening is strict, a value with a leaf that is no array is refused
flatten_forward(fun_args, fun_kwargs, value) ==
  [err |-> tree_flatten(value, TRUE).err,
   fun_args |-> fun_args, fun_kwargs |-> fun_kwargs,
   outputs |-> IF tree_flatten(value, TRUE).err # "" THEN <<>>
               ELSE tree_flatten(value, TRUE).arrays,
   output_structure |-> IF tree_flatten(value, TRUE).err # "" THEN PyNone
                        ELSE Structure(value)]

\* fun_ called on the rebuilt (args, kwargs)
forward_on(beh, new_inputs) ==
  flatten_forward(new_inputs.c[1].c, new_inputs.c[2],
                  user_outputs(beh, new_inputs.c[1].c, new_inputs.c[2]))

\* InnerFunction::operator()
custom_inner_function(beh, input_structure, inputs) ==
  forward_on(beh, tree_unflatten(input_structure, inputs, 0))

\* std::optional<InnerVJPFunction> make_vjp_function
make_vjp_function(f) == IF ~f.vjp_fun_ THEN "nullopt" ELSE "InnerVJPFunction"
\* std::optional<InnerJVPFunction> make_jvp_function
make_jvp_function(f) == IF ~f.jvp_fun_ THEN "nullopt" ELSE "InnerJVPFunction"
\* std::optional<InnerVmapFunction> make_vmap_function
make_vmap_function(f) == IF ~f.vmap_fun_ THEN "nullopt" ELSE "InnerVmapFunction"

\* return fun_(*args, **kwargs);
custom_direct(f, args, kwargs) ==
  [path |-> "direct", err |-> "", fun_calls |-> 1,
   fun_args |-> args, fun_kwargs |-> kwargs,
   flattened |-> FALSE, input_arrays |-> <<>>, input_structure |-> PyNone,
   primitive |-> FALSE,
   vjp |-> "nullopt", jvp |-> "nullopt", vmap |-> "nullopt",
   output_structure |-> PyNone,
   result |-> user_outputs(f.beh, args, kwargs)]

\* auto outputs = f(input_arrays);
\* return tree_unflatten_from_structure(*output_structure, outputs);
custom_traced(f, input_arrays, input_structure, fw) ==
  [path |-> "custom", err |-> fw.err, fun_calls |-> 1,
   fun_args |-> fw.fun_args, fun_kwargs |-> fw.fun_kwargs,
   flattened |-> TRUE, input_arrays |-> input_arrays,
   input_structure |-> input_structure,
   primitive |-> TRUE,
   vjp |-> make_vjp_function(f), jvp |-> make_jvp_function(f),
   vmap |-> make_vmap_function(f),
   output_structure |-> fw.output_structure,
   result |-> IF fw.err # "" THEN PyNone
              ELSE tree_unflatten(fw.output_structure,
                     [i \in 1..Len(fw.outputs) |-> custom_output(fw.outputs[i])], 0)]

\* mx::custom_function(InnerFunction(...), ...)(input_arrays): the forward
\* function runs once on the inputs
custom_function(f, input_arrays, input_structure) ==
  custom_traced(f, input_arrays, input_structure,
                custom_inner_function(f.beh, input_structure, input_arrays))

\* mutant: every call takes the flatten / custom_function / unflatten path
custom_call_impl_always_traced(f, args, kwargs) ==
  custom_function(f, tree_flatten(full_args(args, kwargs), FALSE).arrays,
                  Structure(full_args(args, kwargs)))

\* PyCustomFunction::call_impl
custom_call_impl(f, args, kwargs) ==
  IF ~f.vjp_fun_ /\ ~f.jvp_fun_ /\ ~f.vmap_fun_
  THEN custom_direct(f, args, kwargs)
  ELSE custom_function(f, tree_flatten(full_args(args, kwargs), FALSE).arrays,
                       Structure(full_args(args, kwargs)))

\* tree_map(tree, fn): the tree with leaf number offset + j (all leaves
\* counted, depth first) replaced by new_leaves[offset + j]
NumLeaves(t) == Len(tree_leaves(t))
RECURSIVE tree_map_leaves(_, _, _)
tree_map_leaves(t, new_leaves, offset) ==
  IF IsContainer(t)
  THEN [t EXCEPT !.c =
          [i \in 1..Len(t.c) |->
             tree_map_leaves(t.c[i], new_leaves,
               offset + SumSeq([j \in 1..(i - 1) |-> NumLeaves(t.c[j])]))]]
  ELSE new_leaves[offset + 1]

\* the number of arrays among the leaves before leaf j
ArraysBefore(leaves, j) == Cardinality({i \in 1..(j - 1) : IsArray(leaves[i])})

\* what an invocation of an override leaves behind
Invocation(kind, err, called, first, second, outputs, output_axes) ==
  [kind |-> kind, err |-> err, called |-> called, first |-> first,
   second |-> second, outputs |-> outputs, output_axes |-> output_axes]

\* the tangent the primitive has for a primal
Tangent(x) == Node("array", x.v, x.nd, "tangent", <<>>, <<>>)

\* std::vector<bool> have_tangents(primals.size(), false);
\* for (auto arg : argnums) have_tangents[arg] = true;
have_tangents(primals, argnums) ==
  [i \in 1..Len(primals) |-> \E k \in 1..Len(argnums) : argnums[k] = i - 1]

\* the leaves the lambda of tree_map returns: array_index counts the arrays
\* seen so far, tangent_index the tangents handed out so far
tangent_leaves(leaves, ht, tangents) ==
  [j \in 1..Len(leaves) |->
     IF IsArray(leaves[j]) /\ ht[ArraysBefore(leaves, j) + 1]
     THEN tangents[Cardinality({i \in 1..(j - 1) :
                      IsArray(leaves[i]) /\ ht[ArraysBefore(leaves, i) + 1]}) + 1]
     ELSE PyNone]

\* jvp_fun_(args[0], new_tangents[0]) or jvp_fun_(args, new_tangents)
call_jvp_fun(args, new_tangents) ==
  IF Len(args.c) = 1
  THEN Invocation("jvp", "", TRUE, args.c[1], new_tangents.c[1],
                  tree_flatten(new_tangents.c[1], FALSE).arrays, <<>>)
  ELSE Invocation("jvp", "", TRUE, args, new_tangents,
                  tree_flatten(new_tangents, FALSE).arrays, <<>>)

\* mutant: the jvp override is called whatever the keywords
jvp_on_any_kwargs(args, kwargs, primals, tangents, argnums) ==
  call_jvp_fun(args,
    tree_map_leaves(args,
      tangent_leaves(tree_leaves(args), have_tangents(primals, argnums), tangents),
      0))

\* the check of lines 768-771, then the tangents tree and the call
jvp_on(args, kwargs, primals, tangents, argnums) ==
  IF Len(kwargs.c) > 0
  THEN Invocation("jvp", "invalid_argument", FALSE, PyNone, PyNone, <<>>, <<>>)
  ELSE call_jvp_fun(args,
         tree_map_leaves(args,
           tangent_leaves(tree_leaves(args), have_tangents(primals, argnums), tangents),
           0))

\* InnerJVPFunction::operator()
InnerJVPFunction(input_structure, primals, tangents, argnums) ==
  jvp_on(tree_unflatten(input_structure, primals, 0).c[1],
         tree_unflatten(input_structure, primals, 0).c[2],
         primals, tangents, argnums)

\* int axis = axes[arr_index++]: arr_index advances on every leaf; past the
\* end of axes the read is out of bounds and yields whatever is there
axis_leaves(leaves, axes, junk) ==
  [j \in 1..Len(leaves) |->
     IF IsArray(leaves[j]) /\ (IF j \in 1..Len(axes) THEN axes[j] ELSE junk) >= 0
     THEN PyInt(IF j \in 1..Len(axes) THEN axes[j] ELSE junk)
     ELSE PyNone]

\* what a vmap override returns, given the inputs and axes it was called with
VmapReturns == {"echo", "list", "single", "triple", "none_axis", "skip",
                "broadcast", "mismatch", "str_axis"}
vmap_fun_result(ret, first, second) ==
  IF ret = "echo" THEN PyTuple(<<first, second>>)
  ELSE IF ret = "list" THEN PyList(<<first, second>>)
  ELSE IF ret = "single" THEN PyTuple(<<first>>)
  ELSE IF ret = "triple" THEN PyTuple(<<first, second, second>>)
  ELSE IF ret = "none_axis" THEN PyTuple(<<Array(7, 1), PyNone>>)
  ELSE IF ret = "skip"
  THEN PyTuple(<<PyList(<<Array(7, 2), PyInt(3), Array(8, 1)>>),
                 PyList(<<PyInt(1), PyNone, PyNone>>)>>)
  ELSE IF ret = "broadcast"
  THEN PyTuple(<<PyList(<<Array(7, 1), Array(8, 1)>>), PyInt(0)>>)
  ELSE IF ret = "mismatch"
  THEN PyTuple(<<PyList(<<Array(7, 1), Array(8, 1)>>), PyList(<<PyInt(0)>>)>>)
  ELSE PyTuple(<<Array(7, 1), PyStr("x")>>)

\* what the visitor of lines 857-863 collected
collected(err, outputs, output_axes) ==
  [err |-> err, outputs |-> outputs, output_axes |-> output_axes]

\* mutant: an axis is recorded for every leaf of the outputs
collect_leaf_every_axis(output, axis) ==
  IF axis.k \notin {"none", "int"} THEN collected("cast_error", <<>>, <<>>)
  ELSE collected("", IF IsArray(output) THEN <<output>> ELSE <<>>,
                 <<IF axis.k = "none" THEN -1 ELSE axis.v>>)

\* the visitor: an array is pushed with its axis, -1 for None
collect_leaf(output, axis) ==
  IF ~IsArray(output) THEN collected("", <<>>, <<>>)
  ELSE IF axis.k = "none" THEN collected("", <<output>>, <<-1>>)
  ELSE IF axis.k = "int" THEN collected("", <<output>>, <<axis.v>>)
  ELSE collected("cast_error", <<>>, <<>>)

\* tree_visit({result_tuple[0], result_tuple[1]}, visitor): the two trees are
\* walked in lockstep; a container of axes has to be of the kind and size of
\* the container of outputs, an axis that is not a container stands for every
\* leaf below
RECURSIVE tree_visit_outputs(_, _)
tree_visit_outputs(outputs, axes) ==
  IF IsContainer(outputs)
  THEN IF IsContainer(axes)
          /\ (axes.k # outputs.k \/ Len(axes.c) # Len(outputs.c)
              \/ axes.keys # outputs.keys)
       THEN collected("StructureMismatchError", <<>>, <<>>)
       ELSE LET rs == until_error(
                        [i \in 1..Len(outputs.c) |->
                           tree_visit_outputs(outputs.c[i],
                             IF IsContainer(axes) THEN axes.c[i] ELSE axes)])
            IN collected(first_error(rs),
                         ConcatAll([i \in 1..Len(rs) |-> rs[i].outputs]),
                         ConcatAll([i \in 1..Len(rs) |-> rs[i].output_axes]))
  ELSE collect_leaf(outputs, axes)

vmap_collected(first, second, r) ==
  IF r.err # "" THEN Invocation("vmap", r.err, TRUE, first, second, <<>>, <<>>)
  ELSE Invocation("vmap", "", TRUE, first, second, r.outputs, r.output_axes)

\* the checks of lines 845-853, then the walk
vmap_checked(first, second, result) ==
  IF result.k # "tuple"
  THEN Invocation("vmap", "invalid_argument", TRUE, first, second, <<>>, <<>>)
  ELSE IF Len(result.c) # 2
  THEN Invocation("vmap", "invalid_argument", TRUE, first, second, <<>>, <<>>)
  ELSE vmap_collected(first, second, tree_visit_outputs(result.c[1], result.c[2]))

\* vmap_fun_(args[0], new_axes[0]) or vmap_fun_(args, new_axes)
call_vmap_fun(args, new_axes, ret) ==
  IF Len(args.c) = 1
  THEN vmap_checked(args.c[1], new_axes.c[1],
                    vmap_fun_result(ret, args.c[1], new_axes.c[1]))
  ELSE vmap_checked(args, new_axes, vmap_fun_result(ret, args, new_axes))

vmap_on(args, kwargs, axes, junk, ret) ==
  IF Len(kwargs.c) > 0
  THEN Invocation("vmap", "invalid_argument", FALSE, PyNone, PyNone, <<>>, <<>>)
  ELSE call_vmap_fun(args,
         tree_map_leaves(args, axis_leaves(tree_leaves(args), axes, junk), 0), ret)

\* InnerVmapFunction::operator()
InnerVmapFunction(input_structure, inputs, axes, junk, ret) ==
  vmap_on(tree_unflatten(input_structure, inputs, 0).c[1],
          tree_unflatten(input_structure, inputs, 0).c[2],
          axes, junk, ret)

\* the cotangent the primitive has for an output
Cotangent(x) == Node("array", x.v, x.nd, "cotangent", <<>>, <<>>)

\* what a vjp override returns, given the primals it was called with
VjpReturns == {"primals", "mixed"}
vjp_fun_result(ret, primals) ==
  IF ret = "primals" THEN primals
  ELSE PyList(<<Array(7, 1), PyInt(3), PyTuple(<<Array(8, 1), PyNone>>)>>)

\* mutant: the return value of the vjp override is flattened strictly
vjp_flattened_strict(first, new_cotangents, new_outputs, kwargs, result) ==
  [inv |-> Invocation("vjp", tree_flatten(result, TRUE).err, TRUE, first, new_cotangents,
                      IF tree_flatten(result, TRUE).err # "" THEN <<>>
                      ELSE tree_flatten(result, TRUE).arrays, <<>>),
   third |-> new_outputs, kwargs |-> kwargs]

\* return tree_flatten(vjp_fun_(...), false);
vjp_flattened(first, new_cotangents, new_outputs, kwargs, result) ==
  [inv |-> Invocation("vjp", "", TRUE, first, new_cotangents,
                      tree_flatten(result, FALSE).arrays, <<>>),
   third |-> new_outputs, kwargs |-> kwargs]

\* mutant: the positional arguments are always passed as a tuple
call_vjp_fun_always_tuple(args, new_cotangents, new_outputs, kwargs, ret) ==
  vjp_flattened(args, new_cotangents, new_outputs, kwargs, vjp_fun_result(ret, args))

\* vjp_fun_(args[0], new_cotangents, new_outputs, **new_inputs[1]) or
\* vjp_fun_(args, new_cotangents, new_outputs, **new_inputs[1])
call_vjp_fun(args, new_cotangents, new_outputs, kwargs, ret) ==
  IF Len(args.c) = 1
  THEN vjp_flattened(args.c[1], new_cotangents, new_outputs, kwargs,
                     vjp_fun_result(ret, args.c[1]))
  ELSE vjp_flattened(args, new_cotangents, new_outputs, kwargs,
                     vjp_fun_result(ret, args))

\* InnerVJPFunction::operator()
InnerVJPFunction(input_structure, output_structure, primals, cotangents, outputs, ret) ==
  call_vjp_fun(tree_unflatten(input_structure, primals, 0).c[1],
               tree_unflatten(output_structure, cotangents, 0),
               tree_unflatten(output_structure, outputs, 0),
               tree_unflatten(input_structure, primals, 0).c[2],
               ret)

(***************************************************************************)
(* State of the custom-function driver.                                    *)
(*   cfun   the PyCustomFunction object                                    *)
(*   fcall  its last call                                                  *)
(*   finv   the last invocation of one of its overrides by the primitive   *)
(*          made by that call, with the argnums and tangents or the axes   *)
(*          the primitive supplied and (ret) what the override does; for   *)
(*          a vjp override also the cotangents supplied and the outputs    *)
(*          tree (third) and the keywords it was called with               *)
(* fcall keeps, next to what call_impl did, the arguments of the call and  *)
(* (had) which overrides were registered when it was made.                 *)
(***************************************************************************)
NoCustomCall ==
  [path |-> "none", err |-> "", fun_calls |-> 0,
   fun_args |-> <<>>, fun_kwargs |-> PyNone,
   flattened |-> FALSE, input_arrays |-> <<>>, input_structure |-> PyNone,
   primitive |-> FALSE,
   vjp |-> "nullopt", jvp |-> "nullopt", vmap |-> "nullopt",
   output_structure |-> PyNone, result |-> PyNone,
   args |-> <<>>, kwargs |-> PyNone,
   had |-> [vjp |-> FALSE, jvp |-> FALSE, vmap |-> FALSE]]

NoInvocation ==
  [inv |-> Invocation("none", "", FALSE, PyNone, PyNone, <<>>, <<>>),
   argnums |-> <<>>, tangents |-> <<>>, axes |-> <<>>, ret |-> "",
   cotangents |-> <<>>, third |-> PyNone, kwargs |-> PyNone]

\* what the collector did last with the custom function: the objects
\* tp_traverse visited, whether the step faulted
Collected(op, visited, fault) == [op |-> op, visited |-> visited, fault |-> fault]
NoVisit == Collected("none", <<>>, FALSE)

CustomInit ==
  /\ cfun = CustomFunction("echo", FALSE, FALSE, FALSE)
  /\ fcall = NoCustomCall
  /\ finv = NoInvocation
  /\ collect = NoVisit

\* PyCustomFunction(nb::callable fun): a new custom function takes the place
\* of the last one
PyCustomFunction(beh) ==
  /\ cfun' = CustomFunction(beh, FALSE, FALSE, FALSE)
  /\ collect' = NoVisit
  /\ fcall' = NoCustomCall
  /\ finv' = NoInvocation
  /\ UNCHANGED <<gvars, cvars, vvars, kvars, evars, svars>>

set_vjp ==
  /\ cfun.ready
  /\ cfun' = [cfun EXCEPT !.vjp_fun_ = TRUE, !.held = @ \cup {"vjp_fun_"}]
  /\ collect' = NoVisit
  /\ UNCHANGED <<fcall, finv>>
  /\ UNCHANGED <<gvars, cvars, vvars, kvars, evars, svars>>

set_jvp ==
  /\ cfun.ready
  /\ cfun' = [cfun EXCEPT !.jvp_fun_ = TRUE, !.held = @ \cup {"jvp_fun_"}]
  /\ collect' = NoVisit
  /\ UNCHANGED <<fcall, finv>>
  /\ UNCHANGED <<gvars, cvars, vvars, kvars, evars, svars>>

set_vmap ==
  /\ cfun.ready
  /\ cfun' = [cfun EXCEPT !.vmap_fun_ = TRUE, !.held = @ \cup {"vmap_fun_"}]
  /\ collect' = NoVisit
  /\ UNCHANGED <<fcall, finv>>
  /\ UNCHANGED <<gvars, cvars, vvars, kvars, evars, svars>>

\* PyCustomFunction::operator(): a call of the custom function
custom_call(args, kwargs) ==
  /\ fcall' = custom_call_impl(cfun, args, kwargs)
                 @@ [args |-> args, kwargs |-> kwargs,
                     had |-> [vjp |-> cfun.vjp_fun_, jvp |-> cfun.jvp_fun_,
                              vmap |-> cfun.vmap_fun_]]
  /\ finv' = NoInvocation
  /\ UNCHANGED <<cfun, collect>>
  /\ UNCHANGED <<gvars, cvars, vvars, kvars, evars, svars>>

\* the argnums a primitive can ask tangents for: distinct positions of inputs
ArgnumsOf(n) ==
  {<<i>> : i \in 0..(n - 1)}
    \cup {<<i, j>> : <<i, j>> \in {p \in (0..(n - 1)) \X (0..(n - 1)) : p[1] # p[2]}}

\* the primitive made by the last call runs its jvp override
invoke_jvp(argnums) ==
  /\ fcall.path = "custom" /\ fcall.err = "" /\ fcall.jvp # "nullopt"
  /\ finv' = [inv |-> InnerJVPFunction(fcall.input_structure, fcall.input_arrays,
                        [k \in 1..Len(argnums) |->
                           Tangent(fcall.input_arrays[argnums[k] + 1])],
                        argnums),
              argnums |-> argnums,
              tangents |-> [k \in 1..Len(argnums) |->
                              Tangent(fcall.input_arrays[argnums[k] + 1])],
              axes |-> <<>>, ret |-> "",
              cotangents |-> <<>>, third |-> PyNone, kwargs |-> PyNone]
  /\ UNCHANGED <<cfun, fcall, collect>>
  /\ UNCHANGED <<gvars, cvars, vvars, kvars, evars, svars>>

\* the axes a primitive can supply: one per input, -1 when it is not batched
AxesOf(n) == [1..n -> (-1)..1]
\* what an out-of-bounds read of axes can yield
JunkAxes == {-1, 0}

\* the primitive made by the last call runs its vmap override
invoke_vmap(axes, junk, ret) ==
  /\ fcall.path = "custom" /\ fcall.err = "" /\ fcall.vmap # "nullopt"
  /\ finv' = [inv |-> InnerVmapFunction(fcall.input_structure, fcall.input_arrays,
                        axes, junk, ret),
              argnums |-> <<>>, tangents |-> <<>>, axes |-> axes, ret |-> ret,
              cotangents |-> <<>>, third |-> PyNone, kwargs |-> PyNone]
  /\ UNCHANGED <<cfun, fcall, collect>>
  /\ UNCHANGED <<gvars, cvars, vvars, kvars, evars, svars>>

\* the arrays the call of the primitive returned, flat
custom_outputs(call) == tree_flatten(call.result, FALSE).arrays

\* the primitive made by the last call runs its vjp override: one cotangent
\* for each output
invoke_vjp(ret) ==
  /\ fcall.path = "custom" /\ fcall.err = "" /\ fcall.vjp # "nullopt"
  /\ \E r \in {InnerVJPFunction(fcall.input_structure, fcall.output_structure,
                   fcall.input_arrays,
                   [i \in 1..Len(custom_outputs(fcall)) |->
                      Cotangent(custom_outputs(fcall)[i])],
                   custom_outputs(fcall), ret)} :
       finv' = [inv |-> r.inv, argnums |-> <<>>, tangents |-> <<>>, axes |-> <<>>,
                ret |-> ret,
                cotangents |-> [i \in 1..Len(custom_outputs(fcall)) |->
                                  Cotangent(custom_outputs(fcall)[i])],
                third |-> r.third, kwargs |-> r.kwargs]
  /\ UNCHANGED <<cfun, fcall, collect>>
  /\ UNCHANGED <<gvars, cvars, vvars, kvars, evars, svars>>

CustomNext ==
  \/ \E beh \in Behaviours : PyCustomFunction(beh)
  \/ set_vjp
  \/ set_jvp
  \/ set_vmap
  \/ \E b \in 1..Len(CustomCalls) : custom_call(CustomCalls[b].args, CustomCalls[b].kwargs)
  \/ \E ret \in VjpReturns : invoke_vjp(ret)
  \/ \E argnums \in ArgnumsOf(Len(fcall.input_arrays)) : invoke_jvp(argnums)
  \/ \E axes \in AxesOf(Len(fcall.input_arrays)), junk \in JunkAxes, ret \in VmapReturns :
       invoke_vmap(axes, junk, ret)

(***************************************************************************)
(* The custom function and the cycle collector of the host: the instance   *)
(* is allocated before its constructor runs, tp_traverse and tp_clear are  *)
(* the slots of the type, the destructor runs when the instance goes.      *)
(***************************************************************************)
\* the instance as nb::inst_alloc leaves it: no PyCustomFunction yet
Unready ==
  [beh |-> "echo", vjp_fun_ |-> FALSE, jvp_fun_ |-> FALSE, vmap_fun_ |-> FALSE,
   ready |-> FALSE, held |-> {}]

\* Py_VISIT of the members: fun_, and an optional when it has a value; a
\* null handle is not visited
visit_members(f) ==
  SelectSeq(Members, LAMBDA m : m \in f.held /\ (m = "fun_" \/ f[m]))

\* py_custom_function_tp_traverse
tp_traverse_visits(f) ==
  IF ~f.ready THEN <<"type">> ELSE <<"type">> \o visit_members(f)

\* mutant: only fun_ is reset
reset_fun_only(f) == [f EXCEPT !.held = @ \ {"fun_"}]

\* PyCustomFunction::reset: fun_.reset(), and (*o).reset() for every optional
\* that has a value
reset(f) ==
  [f EXCEPT !.held = {m \in @ : ~(m = "fun_" \/ f[m])}]

inst_alloc ==
  /\ cfun' = Unready
  /\ collect' = NoVisit
  /\ fcall' = NoCustomCall
  /\ finv' = NoInvocation

tp_traverse ==
  /\ collect' = Collected("tp_traverse", tp_traverse_visits(cfun), FALSE)
  /\ UNCHANGED <<cfun, fcall, finv>>

\* py_custom_function_tp_clear: p->reset() with no test of nb::inst_ready; on
\* an instance with no PyCustomFunction the members are not initialised
tp_clear(fault) ==
  /\ cfun.ready => ~fault
  /\ cfun' = IF cfun.ready THEN reset(cfun) ELSE cfun
  /\ collect' = Collected("tp_clear", <<>>, fault)
  /\ UNCHANGED <<fcall, finv>>

\* ~PyCustomFunction
destroy_custom ==
  /\ cfun.ready
  /\ cfun' = [reset(cfun) EXCEPT !.ready = FALSE]
  /\ collect' = Collected("destroy", <<>>, FALSE)
  /\ UNCHANGED <<fcall, finv>>

CollectNext ==
  /\ UNCHANGED <<gvars, cvars, vvars, kvars, evars, svars>>
  /\ \/ inst_alloc
     \/ \E beh \in Behaviours : PyCustomFunction(beh)
     \/ set_vjp
     \/ set_jvp
     \/ set_vmap
     \/ tp_traverse
     \/ \E fault \in BOOLEAN : tp_clear(fault)
     \/ destroy_custom

(***************************************************************************)
(* eval and async_eval.  The thread that calls the binding holds the host  *)
(* lock (gil = "caller").  A second host thread takes the lock when it is  *)
(* free and writes the list the arguments hold.  The binding flattens its  *)
(* arguments one after the other, so that a write between two of them      *)
(* would be seen.                                                          *)
(***************************************************************************)
\* the contents the shared list can have
ListContents ==
  { <<Array(1, 1), PyInt(1), Array(2, 1)>>,
    <<Array(1, 1)>>,
    <<Array(3, 1), PyList(<<Array(2, 1)>>)>>,
    <<>> }

\* an argument of the call: the shared list or an object nobody writes
TheList == [ref |-> TRUE, val |-> PyNone]
Fixed(t) == [ref |-> FALSE, val |-> t]

\* nb::args of the call
EvalCalls ==
  { <<TheList>>,
    <<TheList, Fixed(Array(4, 1))>>,
    <<TheList, Fixed(PyStr("s")), TheList>> }

\* the object an argument is, with the contents the list has now
host_object(arg, contents) == IF arg.ref THEN PyList(contents) ELSE arg.val

\* the tuple args as it is now
host_args(args, contents) ==
  PyTuple([i \in 1..Len(args) |-> host_object(args[i], contents)])

\* mutant: the scope leaves the lock with the thread
gil_kept(lock) == lock

\* nb::gil_scoped_release nogil;
gil_scoped_release(lock) == "none"

EvalCall(kind, pc, args, pos, arrays, snapshot, reads, evaluate_lock, evaluated, return_lock) ==
  [kind |-> kind, pc |-> pc, args |-> args, pos |-> pos, arrays |-> arrays,
   snapshot |-> snapshot, reads |-> reads, evaluate_lock |-> evaluate_lock,
   evaluated |-> evaluated, return_lock |-> return_lock]

NoEvalCall == EvalCall("none", "idle", <<>>, 0, <<>>, PyNone, <<>>, "", <<>>, "")

EvalInit ==
  /\ gil = "caller"
  /\ ehost = <<Array(1, 1), PyInt(1), Array(2, 1)>>
  /\ ecall = NoEvalCall

\* the host calls eval(*args) or async_eval(*args)
eval_binding(kind, args) ==
  /\ ecall.pc = "idle" /\ gil = "caller"
  /\ ecall' = EvalCall(kind, "flatten", args, 1, <<>>, host_args(args, ehost), <<>>,
                       "", <<>>, "")
  /\ UNCHANGED <<gil, ehost>>

\* std::vector<mx::array> arrays = tree_flatten(args, false);  one argument
\* of the call at a step, each read of the tree with the holder of the lock
eval_flatten ==
  /\ ecall.pc = "flatten"
  /\ ecall' = [ecall EXCEPT
        !.arrays = @ \o tree_flatten(host_object(ecall.args[ecall.pos], ehost), FALSE).arrays,
        !.reads = Append(@, gil),
        !.pos = @ + 1,
        !.pc = IF ecall.pos = Len(ecall.args) THEN "release" ELSE "flatten"]
  /\ UNCHANGED <<gil, ehost>>

\* nb::gil_scoped_release nogil;
eval_release ==
  /\ ecall.pc = "release"
  /\ gil' = gil_scoped_release(gil)
  /\ ecall' = [ecall EXCEPT !.pc = "evaluate"]
  /\ UNCHANGED ehost

\* eval(arrays); or async_eval(arrays);
eval_evaluate ==
  /\ ecall.pc = "evaluate"
  /\ ecall' = [ecall EXCEPT !.evaluated = ecall.arrays, !.evaluate_lock = gil,
                            !.pc = "acquire"]
  /\ UNCHANGED <<gil, ehost>>

\* the end of the scope of nogil: the thread waits for the lock
eval_acquire ==
  /\ ecall.pc = "acquire"
  /\ gil \in {"none", "caller"}
  /\ gil' = "caller"
  /\ ecall' = [ecall EXCEPT !.pc = "return"]
  /\ UNCHANGED ehost

\* the binding returns None to the host
eval_return ==
  /\ ecall.pc = "return"
  /\ ecall' = [ecall EXCEPT !.pc = "idle", !.return_lock = gil]
  /\ UNCHANGED <<gil, ehost>>

\* the calling thread gives the lock up between two calls, and takes it again
caller_yield ==
  /\ ecall.pc = "idle" /\ gil = "caller"
  /\ gil' = "none"
  /\ UNCHANGED <<ehost, ecall>>

caller_resume ==
  /\ ecall.pc = "idle" /\ gil = "none"
  /\ gil' = "caller"
  /\ UNCHANGED <<ehost, ecall>>

\* the second host thread: it runs only while it holds the lock
other_acquire ==
  /\ gil = "none"
  /\ gil' = "other"
  /\ UNCHANGED <<ehost, ecall>>

other_write(contents) ==
  /\ gil = "other"
  /\ contents # ehost
  /\ ehost' = contents
  /\ UNCHANGED <<gil, ecall>>

other_release ==
  /\ gil = "other"
  /\ gil' = "none"
  /\ UNCHANGED <<ehost, ecall>>

EvalNext ==
  /\ UNCHANGED <<gvars, cvars, vvars, kvars, fvars, svars>>
  /\ \/ \E kind \in {"eval", "async_eval"}, args \in EvalCalls : eval_binding(kind, args)
     \/ eval_flatten
     \/ eval_release
     \/ eval_evaluate
     \/ eval_acquire
     \/ eval_return
     \/ caller_yield
     \/ caller_resume
     \/ other_acquire
     \/ \E contents \in ListContents : other_write(contents)
     \/ other_release

(***************************************************************************)
(* The signature of a call with one argument that is a constant or an      *)
(* empty container or an array: the tokens recurse pushes for it.          *)
(***************************************************************************)
IntRange == 100

\* the arguments: every int from -IntRange to IntRange, and one object of
\* each other kind
SignatureLeaves ==
  {PyInt(v) : v \in (0 - IntRange)..IntRange}
    \cup {Array(1, 1), PyList(<<>>), PyTuple(<<>>), PyDict(<<>>, <<>>), PyStr("s")}

SignatureInit == scall = [n |-> 0, leaf |-> PyNone, constants |-> <<>>, tokens |-> <<>>]

\* the start of call_impl for f(leaf): recurse(args); recurse(kwargs); tokens
\* are the ones recurse pushed for the argument itself
signature(leaf) ==
  /\ scall' = [n |-> 1, leaf |-> leaf,
               constants |-> flatten_call(<<leaf>>, PyDict(<<>>, <<>>)).constants,
               tokens |-> recurse(leaf).constants]
  /\ UNCHANGED <<gvars, cvars, vvars, kvars, fvars, evars>>

SignatureNext == \E leaf \in SignatureLeaves : signature(leaf)

Init ==
  /\ GradInit /\ CompileInit /\ VmapInit /\ CheckpointInit /\ CustomInit /\ EvalInit
  /\ SignatureInit

SpecGrad == Init /\ [][GradNext]_vars

SpecCompile == Init /\ [][CompileNext]_vars

SpecVmap == Init /\ [][VmapNext]_vars

SpecCheckpoint == Init /\ [][CheckpointNext]_vars

SpecCustom == Init /\ [][CustomNext]_vars

SpecCollect == Init /\ [][CollectNext]_vars

SpecSignature == Init /\ [][SignatureNext]_vars

SpecEval == Init /\ [][EvalNext]_vars

(***************************************************************************)
(* Properties of the compilation cache driver.                             *)
(***************************************************************************)

\* a call bundle with every array replaced by one and the same array: what is
\* left is the tree shape and the int / float / str constants
RECURSIVE Erase(_)
Erase(t) ==
  IF IsArray(t) THEN Array(0, 0)
  ELSE [t EXCEPT !.c = [i \in 1..Len(t.c) |-> Erase(t.c[i])]]

SameButTensors(b1, b2) ==
  /\ Erase(PyTuple(CompileCalls[b1].args)) = Erase(PyTuple(CompileCalls[b2].args))
  /\ Erase(CompileCalls[b1].kwargs) = Erase(CompileCalls[b2].kwargs)

\* a step that is a call of a compiled function
IsCall == ccall'.n = ccall.n + 1

\* the traces a call through wrapper w with these inputs can reuse
Reusable(e, w, inputs) ==
  /\ e.fun_id = w.fun_id
  /\ e.shapeless = w.shapeless
  /\ e.shapes = input_shapes(inputs)

\* C1: a call whose arguments differ from those of an earlier traced call only
\* in their arrays builds the same constants list as that call, whatever the
\* arrays' values and shapes and whatever the shapeless flag; and when the
\* earlier trace is one of the same callable identity, flag and input shapes
\* the call is a cache hit: the user callable is not invoked, nothing is traced
C1_SameSignature ==
  [][IsCall =>
       \A e \in compile_cache :
         SameButTensors(e.traced_by, ccall'.b) =>
           /\ ccall'.constants = e.constants
           /\ Reusable(e, wrappers[ccall'.w], ccall'.inputs) =>
                /\ ccall'.hit
                /\ ~ccall'.invoked
                /\ compile_cache' = compile_cache
                /\ tree_cache' = tree_cache]_vars

C1_Witness ==
  /\ ccall.n = 2
  /\ ccall.b = 2
  /\ ccall.hit
  /\ ~ccall.invoked
  /\ ccall.inputs = <<Array(2, 1)>>
  /\ \E e \in compile_cache :
       /\ e.traced_by = 1
       /\ e.constants = ccall.constants
       /\ e.fun_id = wrappers[ccall.w].fun_id

\* C2: a call that builds the constants list of an earlier traced call has
\* the tree shape and the constants of that call
C2_ShapeInSignature ==
  \A e \in compile_cache :
    (ccall.n > 0 /\ ccall.err = "" /\ ccall.constants = e.constants)
      => SameButTensors(e.traced_by, ccall.b)

\* C3: a call returns a tree of the structure that the user callable returned
\* when the signature of the call was traced
C3_OwnStructure ==
  [][(IsCall /\ ccall'.err = "") =>
       \E e \in compile_cache' :
         /\ Reusable(e, wrappers'[ccall'.w], ccall'.inputs)
         /\ e.constants = ccall'.constants
         /\ Structure(ccall'.result) = e.py_outputs]_vars

\* the live wrappers of the identity of w, other than w, that were called
CalledSiblings(w) ==
  {v \in Slots \ {w} : /\ wrappers[v].state = "live"
                       /\ wrappers[v].fun_id = wrappers[w].fun_id
                       /\ ~wrappers[v].fresh}

\* C4: the destructor of a wrapper leaves no trace and no structure under the
\* identity of the wrapper; and the first call of a wrapper whose identity no
\* other live wrapper was called with invokes the user callable and returns a
\* tree of the structure the callable returned in that call
C4_Eviction ==
  [][/\ \A w \in Slots :
          (wrappers[w].state # "destroyed" /\ wrappers'[w].state = "destroyed") =>
            /\ wrappers[w].fun_id \notin DOMAIN tree_cache'
            /\ \A e \in compile_cache' : e.fun_id # wrappers[w].fun_id
     /\ (/\ IsCall
         /\ ccall'.err \notin {"invalid_argument", "UserError"}
         /\ wrappers[ccall'.w].fresh
         /\ CalledSiblings(ccall'.w) = {}) =>
          /\ ccall'.invoked
          /\ ~ccall'.hit
          /\ ccall'.err = ""
          /\ \E e \in compile_cache' \ compile_cache :
               Structure(ccall'.result) = e.py_outputs]_vars

C4_Witness ==
  /\ wrappers[1].state = "destroyed"
  /\ ~wrappers[1].fresh
  /\ wrappers[2].state = "live"
  /\ wrappers[2].fun_id = wrappers[1].fun_id
  /\ ccall.n = 2
  /\ ccall.w = 2
  /\ ccall.b = 1
  /\ ccall.invoked
  /\ \E e \in compile_cache : e.fun_id = wrappers[2].fun_id /\ e.traced_by = 1

(***************************************************************************)
(* Further properties of the gradient driver.                              *)
(***************************************************************************)

\* the return values the contract admits, by the mode of the transform
ContractOk(v, scalar_func_only) ==
  IF scalar_func_only THEN v.k = "array"
  ELSE \/ v.k = "array"
       \/ v.k = "tuple" /\ Len(v.c) >= 1 /\ v.c[1].k = "array"

\* the user callable of the last call was invoked
FunInvoked == \E i \in 1..Len(gcall.out.log) : gcall.out.log[i] = "fun"

\* C11: a call that invoked the user callable fails with the return-contract
\* error exactly when the returned value is not a single array (grad) or not
\* an array or a non-empty tuple that starts with an array (value_and_grad);
\* a value the contract admits is handed back whole, its elements after the
\* first included
C11_ReturnContract ==
  FunInvoked =>
    /\ (gcall.out.err = "ReturnContractError")
         <=> ~ContractOk(user_return(gcall.kind), gfun.scalar_func_only)
    /\ ContractOk(user_return(gcall.kind), gfun.scalar_func_only) =>
         /\ gcall.state = "returned"
         /\ gcall.out.return_value = user_return(gcall.kind)
         /\ ~gfun.scalar_func_only => gcall.returned.c[1] = user_return(gcall.kind)

C11_Witness ==
  /\ FunInvoked
  /\ gfun.scalar_func_only
  /\ gcall.kind = "tuple_aux"
  /\ gcall.state = "raised"
  /\ gcall.out.err = "ReturnContractError"

(***************************************************************************)
(* Properties of the vectorization driver.                                 *)
(***************************************************************************)

\* the axis a bare int resolves to on an array of this rank
ExpectedAxis(a, rank, extra) == IF a < 0 THEN a + rank + extra ELSE a

\* an axis spec that one array leaf accepts
LeafSpec(axes) ==
  \/ axes.k \in {"none", "int"}
  \/ axes.k = "tuple" /\ Len(axes.c) = 1 /\ axes.c[1].k \in {"none", "int"}

\* one application of axes_to_flat_tree, r = [tree, axes, output_axes, res]
AxesResolved(r) ==
  LET leaves == tree_leaves(r.tree)
      extra == IF r.output_axes THEN 1 ELSE 0
      ok == r.res.err = ""
  IN /\ ok =>
          /\ Len(r.res.flat_axes) = Len(leaves)
          /\ \A i \in 1..Len(leaves) :
               /\ IsArray(leaves[i])
               /\ \/ r.res.flat_axes[i] = -1
                  \/ r.res.flat_axes[i] \in 0..(leaves[i].nd + extra - 1)
     /\ ~ok => r.res.flat_axes = <<>>
     /\ (\E i \in 1..Len(leaves) : ~IsArray(leaves[i])) => ~ok
     /\ (ok /\ r.axes.k = "none") =>
          \A i \in 1..Len(leaves) : r.res.flat_axes[i] = -1
     /\ r.axes.k = "int" =>
          /\ ok <=> \A i \in 1..Len(leaves) :
                      /\ IsArray(leaves[i])
                      /\ ExpectedAxis(r.axes.v, leaves[i].nd, extra)
                           \in 0..(leaves[i].nd + extra - 1)
          /\ ok => \A i \in 1..Len(leaves) :
                     r.res.flat_axes[i] = ExpectedAxis(r.axes.v, leaves[i].nd, extra)
     /\ (IsArray(r.tree) /\ ~LeafSpec(r.axes)) => ~ok
     /\ (IsArray(r.tree) /\ r.axes.k = "tuple" /\ LeafSpec(r.axes)) =>
          /\ r.axes.c[1].k = "none" => (ok /\ r.res.flat_axes = <<-1>>)
          /\ r.axes.c[1].k = "int" =>
               /\ ok <=> ExpectedAxis(r.axes.c[1].v, r.tree.nd, extra)
                           \in 0..(r.tree.nd + extra - 1)
               /\ ok => r.res.flat_axes
                          = <<ExpectedAxis(r.axes.c[1].v, r.tree.nd, extra)>>
     /\ (r.tree = Array(1, 2) /\ ~r.output_axes) =>
          /\ r.axes = PyInt(-1) => (ok /\ r.res.flat_axes = <<1>>)
          /\ r.axes = PyInt(2) => ~ok

\* C12: axes_to_flat_tree returns one entry for each array leaf, in flatten
\* order: -1 for None, else the axis, counted from rank + extra when it is
\* negative, and in [0, rank + extra); it fails when the axis is out of that
\* range, when a leaf is not an array and when the spec of a leaf is not an
\* int, None or a 1-tuple of one of them
C12_AxisResolution ==
  \A k \in 1..Len(vcall.out.resolved) : AxesResolved(vcall.out.resolved[k])

C12_Witness ==
  /\ vcall.op = "call"
  /\ vcall.out.err = ""
  /\ Len(vcall.out.resolved) = 2
  /\ vcall.out.resolved[1].axes = PyInt(-1)
  /\ vcall.out.resolved[1].res.flat_axes = <<1, 0>>
  /\ vcall.out.resolved[2].output_axes
  /\ vcall.out.resolved[2].axes = PyInt(-1)
  /\ vcall.out.resolved[2].res.flat_axes = <<1>>

(***************************************************************************)
(* Properties of the checkpoint driver.                                    *)
(***************************************************************************)

DirectCall ==
  /\ fcall.path = "direct"
  /\ fcall.fun_calls = 1
  /\ fcall.fun_args = fcall.args
  /\ fcall.fun_kwargs = fcall.kwargs
  /\ fcall.result = user_outputs(cfun.beh, fcall.args, fcall.kwargs)
  /\ ~fcall.flattened
  /\ ~fcall.primitive

\* the call flattened (args, kwargs), made the primitive with the overrides
\* that were registered and nullopt for the others, and unflattened its outputs
TracedCall ==
  /\ fcall.path = "custom"
  /\ fcall.flattened
  /\ fcall.input_arrays = tree_flatten(full_args(fcall.args, fcall.kwargs), FALSE).arrays
  /\ fcall.primitive
  /\ (fcall.vjp = "nullopt") <=> ~fcall.had.vjp
  /\ (fcall.jvp = "nullopt") <=> ~fcall.had.jvp
  /\ (fcall.vmap = "nullopt") <=> ~fcall.had.vmap
  /\ fcall.err = "" =>
        fcall.result = tree_unflatten(fcall.output_structure,
                         tree_flatten(fcall.result, FALSE).arrays, 0)

\* C14: a call of a custom function with no override registered is the call
\* of the wrapped callable (called once, same arguments, same value, nothing
\* flattened, no primitive); with at least one override registered the call
\* goes through flatten / custom_function / unflatten and the overrides that
\* are not registered are passed as not set
C14_DirectOrTraced ==
  fcall.path # "none" =>
    IF ~fcall.had.vjp /\ ~fcall.had.jvp /\ ~fcall.had.vmap
    THEN DirectCall
    ELSE TracedCall

\* a direct call with keywords, and its value holds the caller's own arrays
C14_Witness ==
  /\ fcall.path = "direct"
  /\ Len(fcall.kwargs.c) > 0
  /\ fcall.result = PyTuple(fcall.args)
  /\ tree_flatten(fcall.result, FALSE).arrays # <<>>

(***************************************************************************)
(* The custom-function driver: keywords and the jvp and vmap overrides.    *)
(***************************************************************************)

\* the last call carried at least one keyword argument
HasKeywords == fcall.path # "none" /\ Len(fcall.kwargs.c) > 0

\* C15: an invocation of the jvp or vmap override of a call that carried a
\* keyword argument fails (std::invalid_argument) and the override is not
\* called; with no keyword the override is called; the forward call is made
\* with its keywords and is not refused
C15_KeywordsRefused ==
  /\ finv.inv.kind \in {"jvp", "vmap"} =>
       IF HasKeywords
       THEN finv.inv.err = "invalid_argument" /\ ~finv.inv.called
       ELSE finv.inv.called
  /\ HasKeywords =>
       fcall.fun_calls = 1 /\ fcall.fun_kwargs = fcall.kwargs /\ fcall.err = ""

\* the jvp override of a call with a keyword was asked for and refused
C15_Witness ==
  /\ HasKeywords
  /\ fcall.path = "custom"
  /\ finv.inv.kind = "jvp"
  /\ finv.inv.err = "invalid_argument"
  /\ ~finv.inv.called

(***************************************************************************)
(* The custom-function driver: what a vmap override has to return.         *)
(***************************************************************************)

\* the paths to the array leaves of a tree, in flatten order
RECURSIVE ArrayPaths(_)
ArrayPaths(t) ==
  IF IsArray(t) THEN << <<>> >>
  ELSE IF IsContainer(t)
  THEN ConcatAll([i \in 1..Len(t.c) |->
                    [j \in 1..Len(ArrayPaths(t.c[i])) |-> <<i>> \o ArrayPaths(t.c[i])[j]]])
  ELSE <<>>

\* the axis the override gave for the leaf at a path of outputs
RECURSIVE AxisAt(_, _)
AxisAt(axes, path) ==
  IF ~IsContainer(axes) \/ path = <<>> THEN axes
  ELSE AxisAt(axes.c[Head(path)], Tail(path))

\* the value the vmap override returned in the last invocation
VmapReturned == vmap_fun_result(finv.ret, finv.inv.first, finv.inv.second)

\* one axis per output array, in flatten order: -1 for None, else the integer
AxesPerOutput(outputs, axes) ==
  /\ finv.inv.outputs = tree_flatten(outputs, FALSE).arrays
  /\ Len(finv.inv.output_axes) = Len(finv.inv.outputs)
  /\ \A i \in 1..Len(ArrayPaths(outputs)) :
       finv.inv.output_axes[i] =
         IF AxisAt(axes, ArrayPaths(outputs)[i]).k = "none" THEN -1
         ELSE AxisAt(axes, ArrayPaths(outputs)[i]).v

\* C16: a vmap override that returns anything but a tuple of two items fails
\* (std::invalid_argument); when the invocation succeeds there is one output
\* axis per output array, in flatten order of the outputs, -1 where the
\* override gave None and the given integer otherwise; the list of outputs
\* and the list of output axes always have the same length
C16_OutputsAndAxes ==
  finv.inv.kind = "vmap" /\ finv.inv.called =>
    /\ Len(finv.inv.output_axes) = Len(finv.inv.outputs)
    /\ IF VmapReturned.k # "tuple" \/ Len(VmapReturned.c) # 2
       THEN finv.inv.err = "invalid_argument"
       ELSE finv.inv.err = "" => AxesPerOutput(VmapReturned.c[1], VmapReturned.c[2])

\* the override returned two arrays around an int, with an axis and None
C16_Witness ==
  /\ finv.inv.kind = "vmap"
  /\ finv.inv.called
  /\ finv.inv.err = ""
  /\ finv.ret = "skip"
  /\ Len(finv.inv.outputs) = 2
  /\ finv.inv.output_axes = <<1, -1>>

\* an override that returned a tuple of three items was refused
C16_Refused ==
  finv.inv.kind = "vmap" /\ finv.inv.called /\ finv.ret = "triple"
    /\ finv.inv.err = "invalid_argument"

(***************************************************************************)
(* The custom-function driver: the tangents tree of a jvp override.        *)
(***************************************************************************)

\* the tangents tree the override was given, parallel to the tuple of the
\* positional arguments (a single argument is passed bare)
TangentsTree ==
  IF Len(fcall.args) = 1 THEN PyTuple(<<finv.inv.second>>) ELSE finv.inv.second

\* the tangent that belongs to the array at flat position p: tangents[k] for
\* the k with argnums[k] = p, None when p is not in argnums
TangentOf(p) ==
  IF \E k \in 1..Len(finv.argnums) : finv.argnums[k] = p
  THEN finv.tangents[CHOOSE k \in 1..Len(finv.argnums) : finv.argnums[k] = p]
  ELSE PyNone

\* every leaf of the tangents tree is the tangent of the primal at its place
TangentsPaired(primals, given) ==
  /\ Len(given) = Len(primals)
  /\ \A j \in 1..Len(primals) :
       given[j] = IF IsArray(primals[j])
                  THEN TangentOf(ArraysBefore(primals, j))
                  ELSE PyNone

Ascending(s) == \A i \in 1..(Len(s) - 1) : s[i] < s[i + 1]

\* with ascending argnums the pairing of C20 holds
C20_AscendingPairing ==
  finv.inv.kind = "jvp" /\ finv.inv.called /\ Ascending(finv.argnums) =>
    TangentsPaired(tree_leaves(PyTuple(fcall.args)), tree_leaves(TangentsTree))

\* the override was called for argnums [1, 0] and the first array got the
\* tangent of the second
C20_Swapped ==
  /\ finv.inv.kind = "jvp"
  /\ finv.inv.called
  /\ finv.argnums = <<1, 0>>
  /\ fcall.args = <<Array(1, 1), Array(2, 1)>>
  /\ finv.inv.second = PyTuple(<<Tangent(Array(2, 1)), Tangent(Array(1, 1))>>)

(***************************************************************************)
(* The gradient driver: the argument trees after the user callable ran.    *)
(***************************************************************************)

\* the closure of the last call has invoked the user callable
FunRan == gcall.state # "none" /\ \E i \in 1..Len(gcall.out.log) : gcall.out.log[i] = "fun"

\* the array leaves of the argument trees after the call
LeavesAfter == tree_flatten(gcall.out.tree, FALSE).arrays

\* C17: after the closure has invoked the user callable, every array leaf of
\* the argument trees the callable did not overwrite holds its original array
\* again and the leaf it overwrote keeps the array it wrote, also for the
\* leaves that come after the overwritten leaf in flatten order
C17_LeavesRestored ==
  FunRan =>
    /\ Len(LeavesAfter) = Len(AllArrays(gcall.args, gcall.kwargs))
    /\ \A i \in 1..Len(LeavesAfter) :
         LeavesAfter[i] = IF i = gcall.write + 1 THEN Written
                          ELSE AllArrays(gcall.args, gcall.kwargs)[i]

\* the leaves up to the overwritten one are restored
C17_RestoredBefore ==
  FunRan =>
    \A i \in 1..Len(LeavesAfter) :
      (gcall.write < 0 \/ i < gcall.write + 1) =>
        LeavesAfter[i] = AllArrays(gcall.args, gcall.kwargs)[i]

\* the callable overwrote a leaf and a later leaf is left holding its tracer
C17_TracerLeft ==
  /\ FunRan
  /\ gcall.write >= 0
  /\ \E i \in (gcall.write + 2)..Len(LeavesAfter) : LeavesAfter[i].s = "tracer"

(***************************************************************************)
(* The compilation driver: captured state.                                 *)
(***************************************************************************)

\* the last call went as far as the primitive and returned its outputs
Compiled == ccall.n > 0 /\ (ccall.hit \/ ccall.invoked)

\* the number of arrays the user callable returns for the last call
ReturnedArrays ==
  NumArrays(user_outputs(ccall.beh, CompileCalls[ccall.b].args,
                         CompileCalls[ccall.b].kwargs))

\* C18: on every call of a compiled function with captured outputs, hit or
\* miss, the outputs of the primitive are split at n, the number of arrays
\* the user callable returns for the signature of this call: the arrays of
\* the result are among the first n and exactly the arrays after them are
\* written into the captured outputs
C18_SplitAtReturned ==
  Compiled /\ ccall.capturing =>
    /\ ccall.captures = SubSeq(ccall.outputs, ReturnedArrays + 1, Len(ccall.outputs))
    /\ tree_flatten(ccall.captured_outputs, FALSE).arrays = ccall.captures
    /\ ccall.err = "" =>
         /\ NumArrays(ccall.result) <= ReturnedArrays
         /\ tree_flatten(ccall.result, FALSE).arrays
              = SubSeq(ccall.outputs, 1, NumArrays(ccall.result))

\* the split is right on a call that traces
C18_SplitWhenTraced ==
  Compiled /\ ccall.capturing /\ ccall.invoked =>
    /\ ccall.captures = SubSeq(ccall.outputs, ReturnedArrays + 1, Len(ccall.outputs))
    /\ tree_flatten(ccall.captured_outputs, FALSE).arrays = ccall.captures

\* a hit of a wrapper that has not traced: the array of the result is written
\* into the captured outputs
C18_WrongSplit ==
  /\ Compiled
  /\ ccall.capturing
  /\ ccall.hit
  /\ ccall.err = ""
  /\ ReturnedArrays = 1
  /\ Len(ccall.outputs) = 2
  /\ ccall.captures = ccall.outputs
  /\ tree_flatten(ccall.captured_outputs, FALSE).arrays = <<ccall.outputs[1]>>

\* the arrays of the positional arguments, of the keywords and of the
\* captured inputs of the last call
PositionalArrays == tree_flatten(PyTuple(CompileCalls[ccall.b].args), FALSE).arrays
KeywordArrays == tree_flatten(CompileCalls[ccall.b].kwargs, FALSE).arrays
CapturedArrays == tree_flatten(ccall.captured_inputs, FALSE).arrays

\* the tracers number first .. last of the tracers of the inputs
TracersFrom(first, last) == SubSeq(tracers(ccall.inputs), first, last)

\* C19: the arrays handed to the primitive are those of the positional
\* arguments, depth first, then those of the keywords, then those of the
\* captured inputs; the callback rebuilds the positional arguments from
\* offset 0, the keywords from offset num_args and takes exactly the
\* trailing tracers for the captured inputs
C19_InputOrder ==
  Compiled =>
    /\ ccall.inputs = PositionalArrays \o KeywordArrays \o CapturedArrays
    /\ ccall.num_args = Len(PositionalArrays)
    /\ ccall.invoked =>
         /\ ccall.callback.ran
         /\ Structure(PyTuple(ccall.callback.trace_args))
              = Structure(PyTuple(CompileCalls[ccall.b].args))
         /\ tree_flatten(PyTuple(ccall.callback.trace_args), FALSE).arrays
              = TracersFrom(1, Len(PositionalArrays))
         /\ Structure(ccall.callback.trace_kwargs)
              = Structure(CompileCalls[ccall.b].kwargs)
         /\ tree_flatten(ccall.callback.trace_kwargs, FALSE).arrays
              = TracersFrom(Len(PositionalArrays) + 1,
                            Len(PositionalArrays) + Len(KeywordArrays))
         /\ ccall.callback.trace_captures
              = TracersFrom(Len(PositionalArrays) + Len(KeywordArrays) + 1,
                            Len(ccall.inputs))

\* a traced call with a positional array, a keyword array and a captured input
C19_Witness ==
  /\ Compiled
  /\ ccall.invoked
  /\ ccall.err = ""
  /\ Len(PositionalArrays) = 1
  /\ Len(KeywordArrays) = 1
  /\ Len(CapturedArrays) = 1
  /\ Len(ccall.inputs) = 3
  /\ ccall.callback.trace_captures = <<Tracer(2, Array(5, 1))>>

(***************************************************************************)
(* The custom-function driver: the axes tree of a vmap override.           *)
(***************************************************************************)

\* the axes tree the override was given, parallel to the tuple of the
\* positional arguments (a single argument is passed bare)
AxesTree ==
  IF Len(fcall.args) = 1 THEN PyTuple(<<finv.inv.second>>) ELSE finv.inv.second

\* the leaf of the axes tree that belongs to the i-th array (i from 0): the
\* axis the primitive supplied for it, None when that axis is -1
AxisOf(i) ==
  IF i + 1 \in 1..Len(finv.axes) /\ finv.axes[i + 1] >= 0
  THEN PyInt(finv.axes[i + 1])
  ELSE PyNone

\* every leaf of the axes tree is the axis of the input at its place
AxesAligned(inputs, given) ==
  /\ Len(given) = Len(inputs)
  /\ \A j \in 1..Len(inputs) :
       given[j] = IF IsArray(inputs[j]) THEN AxisOf(ArraysBefore(inputs, j))
                  ELSE PyNone

\* C21: the axes tree given to the vmap override is parallel to the
\* positional inputs; the i-th array leaf holds axes[i] when it is not
\* negative and None when it is -1, every other leaf holds None, also when
\* the arguments hold leaves that are no arrays
C21_AxesAligned ==
  finv.inv.kind = "vmap" /\ finv.inv.called =>
    AxesAligned(tree_leaves(PyTuple(fcall.args)), tree_leaves(AxesTree))

\* the arguments of the last call are arrays only
ArraysOnly == \A j \in 1..Len(fcall.args) :
                 \A l \in Range(tree_leaves(fcall.args[j])) : IsArray(l)

\* with arguments that hold arrays only the alignment of C21 holds
C21_AlignedArraysOnly ==
  finv.inv.kind = "vmap" /\ finv.inv.called /\ ArraysOnly =>
    AxesAligned(tree_leaves(PyTuple(fcall.args)), tree_leaves(AxesTree))

\* f(x, 1, y) with axes [0, 1]: the axis of y is read past the end of axes
C21_Misaligned ==
  /\ finv.inv.kind = "vmap"
  /\ finv.inv.called
  /\ fcall.args = <<Array(1, 1), PyInt(1), Array(2, 1)>>
  /\ finv.axes = <<0, 1>>
  /\ finv.inv.second = PyTuple(<<PyInt(0), PyNone, PyNone>>)

(***************************************************************************)
(* The custom-function driver: what a vjp override is called with.         *)
(***************************************************************************)

\* the value the vjp override returned in the last invocation
VjpReturned == vjp_fun_result(finv.ret, finv.inv.first)

\* C22: the vjp override is called with the one positional argument itself
\* when the call had exactly one and with the tuple of them otherwise, with
\* the cotangents and the outputs rebuilt against the output structure the
\* forward closure of the same call recorded, and with the keywords of the
\* call; its value is flattened non-strictly, depth first
C22_VjpArguments ==
  finv.inv.kind = "vjp" =>
    /\ finv.inv.called
    /\ finv.inv.err = ""
    /\ finv.inv.first = IF Len(fcall.args) = 1 THEN fcall.args[1] ELSE PyTuple(fcall.args)
    /\ Structure(finv.inv.second) = fcall.output_structure
    /\ tree_flatten(finv.inv.second, FALSE).arrays = finv.cotangents
    /\ Structure(finv.third) = fcall.output_structure
    /\ finv.third = fcall.result
    /\ finv.kwargs = fcall.kwargs
    /\ finv.inv.outputs = SelectSeq(tree_leaves(VjpReturned), IsArray)

\* the vjp override of f(x, a = y) was called with x bare and a = y, and
\* returned a tree with leaves that are no arrays
C22_Witness ==
  /\ finv.inv.kind = "vjp"
  /\ finv.inv.called
  /\ Len(fcall.args) = 1
  /\ finv.inv.first = Array(1, 1)
  /\ Len(fcall.kwargs.c) = 1
  /\ finv.kwargs = fcall.kwargs
  /\ finv.ret = "mixed"
  /\ Len(finv.inv.outputs) = 2
  /\ finv.cotangents # <<>>

\* the vjp override of a call with two positional arguments got the tuple
C22_TupleOfPrimals ==
  /\ finv.inv.kind = "vjp"
  /\ Len(fcall.args) = 2
  /\ finv.inv.first = PyTuple(fcall.args)

(***************************************************************************)
(* eval and async_eval: the host lock.                                     *)
(***************************************************************************)

\* the call has flattened all its arguments
Flattened == ecall.kind # "none" /\ ecall.pc # "flatten"

\* C23: eval and async_eval read their arguments only while the calling
\* thread holds the host lock, so the arrays are those of the arguments as
\* they were at the call (leaves that are no arrays dropped) whatever another
\* thread writes later; the lock is released from before the evaluation until
\* after it and held again when the binding returns, and the evaluation gets
\* the flattened arrays
C23_LockAroundEvaluate ==
  /\ ecall.pc \in {"flatten", "release", "return"} => gil = "caller"
  /\ \A i \in 1..Len(ecall.reads) : ecall.reads[i] = "caller"
  /\ Flattened => /\ Len(ecall.reads) = Len(ecall.args)
                  /\ ecall.arrays = tree_flatten(ecall.snapshot, FALSE).arrays
  /\ ecall.pc \in {"evaluate", "acquire"} => gil # "caller"
  /\ ecall.evaluate_lock # "" => /\ ecall.evaluate_lock # "caller"
                                /\ ecall.evaluated = ecall.arrays
  /\ ecall.return_lock # "" => /\ ecall.return_lock = "caller"
                              /\ ecall.evaluate_lock # ""

\* the other thread wrote the list while the evaluation ran, and the call
\* has the arrays of the list as it was, without the int
C23_Witness ==
  /\ ecall.pc = "acquire"
  /\ gil = "other"
  /\ ecall.evaluate_lock = "other"
  /\ host_args(ecall.args, ehost) # ecall.snapshot
  /\ Len(ecall.args) = 3
  /\ Len(ecall.arrays) = 4
  /\ ecall.evaluated = ecall.arrays

\* the binding has returned with the lock
C23_Returned ==
  /\ ecall.kind = "async_eval" /\ ecall.pc = "idle" /\ ecall.return_lock = "caller"

(***************************************************************************)
(* The custom function and the cycle collector.                            *)
(***************************************************************************)

\* the overrides registered with the custom function
Registered == {m \in {"vjp_fun_", "jvp_fun_", "vmap_fun_"} : cfun[m]}

\* the callables a constructed custom function that was never cleared owns
Owned == {"fun_"} \cup Registered

\* C24: tp_traverse visits the type only when the instance is not
\* constructed, and otherwise the type, the primary callable and exactly the
\* registered overrides, which are the callables the wrapper owns; after
\* tp_clear and after destruction the wrapper owns no callable, whatever
\* overrides were registered
C24_TraverseAndClear ==
  /\ cfun.ready /\ "fun_" \in cfun.held => cfun.held = Owned
  /\ collect.op = "tp_traverse" /\ ~cfun.ready => collect.visited = <<"type">>
  /\ collect.op = "tp_traverse" /\ cfun.ready =>
       /\ collect.visited[1] = "type"
       /\ {collect.visited[i] : i \in 2..Len(collect.visited)} = cfun.held
       /\ Len(collect.visited) = 1 + Cardinality(cfun.held)
       /\ "fun_" \in cfun.held => Len(collect.visited) = 2 + Cardinality(Registered)
  /\ collect.op \in {"tp_clear", "destroy"} => cfun.held = {}

\* tp_traverse visited the type, the primary callable and the vjp and vmap
\* overrides of a custom function with no jvp override
C24_Witness ==
  /\ collect.op = "tp_traverse"
  /\ cfun.ready
  /\ Registered = {"vjp_fun_", "vmap_fun_"}
  /\ collect.visited = <<"type", "fun_", "vjp_fun_", "vmap_fun_">>

\* tp_clear released the three overrides and the primary callable
C24_Cleared ==
  /\ collect.op = "tp_clear"
  /\ cfun.ready
  /\ Registered = {"vjp_fun_", "jvp_fun_", "vmap_fun_"}
  /\ cfun.held = {}

\* tp_traverse on an instance that is not constructed
C24_NotReady ==
  /\ collect.op = "tp_traverse" /\ ~cfun.ready /\ collect.visited = <<"type">>

(***************************************************************************)
(* The checkpoint driver: nothing is kept from one call to the next.       *)
(***************************************************************************)

\* the value fun_ has for the arguments of the last call
OwnValue == user_outputs(kcall.beh, kcall.args, kcall.kwargs)

\* C25: every call of a checkpointed function makes a new object for the
\* output structure and returns a tree with the structure its own closure
\* recorded, also when the closure of the call before runs again meanwhile;
\* a closure that runs after its call has returned gives its flat outputs and
\* writes nothing, neither to the object of its own call nor to that of
\* another call
C25_NoStateAcrossCalls ==
  kcall.n > 0 =>
    /\ kcall.slot # kcall.prev.slot
    /\ kcall.first.output_structure = Structure(OwnValue)
    /\ kcall.output_structure = Structure(OwnValue)
    /\ Structure(kcall.result) = Structure(OwnValue)
    /\ kcall.expired
    /\ kcall.recomputed > 0 =>
         kcall.last = [n |-> NumArrays(OwnValue), output_structure |-> Structure(OwnValue)]
    /\ kcall.prev.output_structure = kcall.prev.held
    /\ kcall.prev.nested => kcall.prev.run = kcall.prev.first

\* the second call returned a list of two arrays while the closure of the
\* first call, which returned one array, ran again during it; later the
\* closure of the second call ran again
C25_Witness ==
  /\ kcall.n = 2
  /\ kcall.prev.nested
  /\ kcall.forward_runs = 1
  /\ kcall.prev.held # kcall.output_structure
  /\ kcall.prev.run.n = 1
  /\ kcall.first.n = 2
  /\ kcall.recomputed = 1

(***************************************************************************)
(* The two registries of the compile driver.                               *)
(***************************************************************************)

\* every identity the primitive layer holds a trace for has a structure
TracesHaveStructure == \A e \in compile_cache : e.fun_id \in DOMAIN tree_cache

\* C26: whenever the primitive layer holds a trace for an identity,
\* tree_cache holds a structure for it, so that the lookup at the end of a
\* call never fails, on a hit and on a miss; and the destructor of a wrapper
\* that was moved from evicts nothing
C26_Registries ==
  /\ [](TracesHaveStructure /\ ccall.err # "out_of_range")
  /\ [][\A w \in Slots :
          (wrappers[w].state = "moved_from" /\ wrappers'[w].state = "destroyed") =>
            /\ tree_cache' = tree_cache
            /\ compile_cache' = compile_cache]_vars

\* the wrapper moved from is destroyed and the wrapper moved to has its trace
\* and its structure, and its call was a hit
C26_Witness ==
  /\ wrappers[1].state = "destroyed"
  /\ wrappers[1].fun_id = 0
  /\ wrappers[2].state = "live"
  /\ wrappers[2].fun_id \in DOMAIN tree_cache
  /\ \E e \in compile_cache : e.fun_id = wrappers[2].fun_id
  /\ ccall.n = 2
  /\ ccall.w = 2
  /\ ccall.hit
  /\ ccall.err = ""

\* a call that missed looked its structure up
C26_Miss ==
  /\ ccall.n > 0 /\ ~ccall.hit /\ ccall.invoked /\ ccall.err = ""
  /\ wrappers[ccall.w].fun_id \in DOMAIN tree_cache

(***************************************************************************)
(* The compile driver: what a destructor takes from the other wrappers.    *)
(***************************************************************************)

\* the traces and the structure recorded under an identity
TracesOf(cc, fun_id) == {e \in cc : e.fun_id = fun_id}
StructureOf(tc, fun_id) == IF fun_id \in DOMAIN tc THEN tc[fun_id] ELSE PyNone

\* the step destroys the wrapper in slot w
Destroys(w) == wrappers[w].state # "destroyed" /\ wrappers'[w].state = "destroyed"

\* the step leaves what is recorded under the identity of slot v as it is
Untouched(v) ==
  /\ TracesOf(compile_cache', wrappers[v].fun_id) = TracesOf(compile_cache, wrappers[v].fun_id)
  /\ StructureOf(tree_cache', wrappers[v].fun_id) = StructureOf(tree_cache, wrappers[v].fun_id)

\* C27: the destructor of a wrapper leaves the traces and the structure of
\* every other live wrapper as they are, also of a wrapper of the same
\* callable
C27_OthersUntouched ==
  [][\A w \in Slots : Destroys(w) =>
       \A v \in Slots \ {w} : wrappers[v].state = "live" => Untouched(v)]_vars

\* the same for the live wrappers of another callable
C27_OtherCallablesUntouched ==
  [][\A w \in Slots : Destroys(w) =>
       \A v \in Slots \ {w} :
         (wrappers[v].state = "live" /\ wrappers[v].fun_id # wrappers[w].fun_id)
           => Untouched(v)]_vars

\* wrapper 2 was called and traced, wrapper 1 of the same callable was never
\* called and is destroyed, and nothing is recorded for wrapper 2 any more
C27_SiblingEvicted ==
  /\ wrappers[1].state = "destroyed"
  /\ wrappers[1].fresh
  /\ wrappers[2].state = "live"
  /\ wrappers[2].fun_id = wrappers[1].fun_id
  /\ ccall.n = 1 /\ ccall.w = 2 /\ ccall.invoked /\ ccall.err = ""
  /\ TracesOf(compile_cache, wrappers[2].fun_id) = {}
  /\ wrappers[2].fun_id \notin DOMAIN tree_cache

(***************************************************************************)
(* The gradient driver: the argument trees after a call that failed.       *)
(***************************************************************************)

\* for every array leaf, in flatten order, whether it sits below a list or a
\* dict of the caller
RECURSIVE BelowMutable(_, _)
BelowMutable(t, inside) ==
  IF IsArray(t) THEN <<inside>>
  ELSE IF IsContainer(t)
  THEN ConcatAll([i \in 1..Len(t.c) |->
                    BelowMutable(t.c[i], inside \/ t.k \in {"list", "dict"})])
  ELSE <<>>

CallerLeaves ==
  BelowMutable(PyTuple(gcall.args), FALSE) \o BelowMutable(PyTuple(gcall.kwargs.c), FALSE)

\* the closure of the last call put the tracers into the argument trees
Filled ==
  gcall.state # "none" /\ \E i \in 1..Len(gcall.out.log) : gcall.out.log[i] = "tree_fill"

\* every array leaf of the containers of the caller holds its original array
CallerLeavesRestored ==
  /\ Len(LeavesAfter) = Len(CallerLeaves)
  /\ \A i \in 1..Len(LeavesAfter) :
       CallerLeaves[i] => LeavesAfter[i] = AllArrays(gcall.args, gcall.kwargs)[i]

\* C28: a call of the transformed function that fails after the tracers were
\* put into the argument trees, because the user callable raises or because
\* its value breaks the return contract, leaves every array leaf of the
\* lists and dicts of the caller with the array it held before the call
C28_RestoredOnFailure ==
  (Filled /\ gcall.state = "raised") => CallerLeavesRestored

\* the same for the calls that fail the return contract
C28_RestoredOnContractFailure ==
  (Filled /\ gcall.out.err = "ReturnContractError") => CallerLeavesRestored

\* the user callable raised and a list of the caller holds a tracer
C28_TracerLeftOnRaise ==
  /\ Filled
  /\ gcall.out.err = "UserError"
  /\ \E i \in 1..Len(LeavesAfter) : CallerLeaves[i] /\ LeavesAfter[i].s = "tracer"

\* a call failed the return contract with arrays in a list of the caller
C28_ContractFailure ==
  /\ Filled
  /\ gcall.out.err = "ReturnContractError"
  /\ \E i \in 1..Len(LeavesAfter) : CallerLeaves[i]

(***************************************************************************)
(* The compilation driver: the captured inputs after a call.               *)
(***************************************************************************)

\* the step is a call through a wrapper with captured inputs that ran the
\* callback compile_fun
TracedWithCaptures ==
  /\ IsCall
  /\ ccall'.invoked
  /\ wrappers[ccall'.w].captured_inputs.k # "none"

\* C29: a call of a compiled function with captured inputs that runs the
\* callback leaves the captured inputs as they were before the call, the
\* tracers the callback wrote replaced by the original arrays, when the user
\* callable returns and when it raises
C29_CapturedInputsRestored ==
  [][TracedWithCaptures =>
       wrappers'[ccall'.w].captured_inputs = wrappers[ccall'.w].captured_inputs]_vars

\* the same for the calls whose user callable returns
C29_RestoredOnReturn ==
  [][(TracedWithCaptures /\ ccall'.err # "UserError") =>
       wrappers'[ccall'.w].captured_inputs = wrappers[ccall'.w].captured_inputs]_vars

\* the user callable raised and the captured inputs hold a tracer
C29_TracerLeft ==
  /\ ccall.n > 0
  /\ ccall.err = "UserError"
  /\ ccall.captured_inputs.k = "list"
  /\ wrappers[ccall.w].state = "live"
  /\ \E i \in 1..NumArrays(wrappers[ccall.w].captured_inputs) :
       tree_flatten(wrappers[ccall.w].captured_inputs, FALSE).arrays[i].s = "tracer"

\* the user callable returned and the captured inputs hold their array
C29_Returned ==
  /\ ccall.n > 0
  /\ ccall.invoked /\ ccall.err = ""
  /\ ccall.captured_inputs.k = "list"
  /\ wrappers[ccall.w].state = "live"
  /\ wrappers[ccall.w].captured_inputs = CapturedInputs(TRUE)

(***************************************************************************)
(* The signature: the token of an int and the reserved markers.            *)
(***************************************************************************)

Markers == {array_identifier, list_identifier, dict_identifier}

\* C30: the token pushed for an int constant is none of the three reserved
\* markers, and the three markers are different from one another, so that a
\* token tells an array, a list or tuple, a dict and an int apart
C30_IntTokenNoMarker ==
  /\ Cardinality(Markers) = 3
  /\ (scall.n > 0 /\ scall.leaf.k = "int") =>
       /\ Len(scall.tokens) = 1
       /\ scall.tokens[1] \notin Markers

\* the three markers are different from one another
C30_MarkersDistinct ==
  scall.n > 0 => Cardinality(Markers) = 3

\* an int argument has the signature of an array argument
C30_IntTakenForArray ==
  /\ scall.n > 0
  /\ scall.leaf.k = "int"
  /\ scall.constants = flatten_call(<<Array(1, 1)>>, PyDict(<<>>, <<>>)).constants

=============================================================================
